---- MODULE Spec2Model ----
(***************************************************************************)
(* Verification model of remoteperf's transport layer and sampling engine. *)
(*                                                                         *)
(*   SpecLock  : LockClient - the exclusive call lock, the public          *)
(*               operations and the validation of pull_file / push_file,   *)
(*               run by concurrent caller threads.                         *)
(*   SpecSSH   : SSHClient - the retry / recovery loop of _run_command,    *)
(*               _pull_file and _push_file.                                *)
(*   SpecADB   : ADBClient - the retry loop of _run_command.               *)
(*   SpecScope : LockClient.__enter__ / __exit__ - cleanup registry and    *)
(*               disconnect on scope exit.                                 *)
(*   SpecSampler : PosixImplementationHandler - start / stop of the        *)
(*               measurement kinds and the sampler worker threads.         *)
(*   SpecSamplerLive : SpecSampler with threads that keep running.         *)
(*   SpecQnx   : QNXHandler - the start calls of the CPU measurements.     *)
(*   SpecCadence : PosixImplementationHandler._thread_loop against a       *)
(*               clock - when the loop samples and how long it waits -     *)
(*               and the records stop_cpu_measurement makes of them.       *)
(*   SpecReader : DelegatedExecutionThread - the delayed read of the       *)
(*               scratch file, its retries and the removal of the file.    *)
(*   SpecSerial : BaseRemoteperfModel - model_dump, the text forms and     *)
(*               the constructor that rebuilds a record from a dump.       *)
(*   SpecFold  : __sample with the Linux per-process CPU fold, call after  *)
(*               call on the buffers of one worker.                        *)
(*   SpecQnxFold : the QNX per-process CPU sampler: the worker, the        *)
(*               delegated readers it launches, the fold and the stop.     *)
(*   SpecJump  : an SSHClient behind a jump host: the jump client with     *)
(*               its own caller, the dependent client with another.        *)
(*   SpecParse : the Linux CPU parsers (parse_proc_stat and                *)
(*               parse_cpu_usage_from_proc_files) under the handler's      *)
(*               parsing-error wrapper, on pairs of snapshots.             *)
(*                                                                         *)
(* Every specification owns a group of variables and leaves the other      *)
(* groups unchanged, but for SpecLock, whose threads also write the        *)
(* cleanup registry through add_cleanup.                                   *)
(***************************************************************************)
EXTENDS Integers, Sequences, FiniteSets, TLC

\* ---------------------------------------------------------------- bounds
\* Number of concurrent caller threads (user threads and sampler workers).
NThreads == 2
\* Largest retry count given to a client or to a call.
MaxRetries == 2
\* Number of public calls made on the SSH client in one behaviour.
MaxCalls == 2
\* Number of distinct remote paths that can be registered for cleanup.
MaxPaths == 2
\* Number of operations the body of a `with client:` scope performs.
MaxBodyOps == 3
\* Number of distinct processes a proc-wise snapshot can list.
MaxProcs == 1
\* Size the sample histories of all workers together can reach through
\* samples taken inside the loops.
MaxSamples == 2
\* Number of start / stop calls made on the handler in one behaviour.
MaxOps == 3
\* Largest sampling interval given to a start call.
MaxInterval == 1
\* Latest clock reading, in ticks, up to which a sampler loop is followed.
MaxTime == 16
\* Longest time, in ticks, by which a wait on the stop flag oversleeps.
MaxJitter == 1
\* Longest list of samples in a per-process record.
MaxList == 2
\* Number of snapshots one worker's buffers are followed through.
MaxSnapshots == 5
\* Largest value of a jiffy counter in a snapshot.
MaxJiffy == 2
\* Number of delegated readers the loop of one QNX worker launches.
MaxReaders == 2

VARIABLES
    \* ---- LockClient (SpecLock)
    call_lock,      \* LockClient._call_lock: the holder, or NoThread
    fs,             \* the files the transfers are about: [src, dest, child]
    op,             \* per thread: the public method being executed
    stage,          \* per thread: position inside that method
    inside,         \* per thread: TRUE inside a `with self._call_lock` body
    eff_dest,       \* per thread: the local variable _dest of pull/push_file
    outcome,        \* per thread: how the last call ended
    transferred,    \* per thread: _pull_file / _push_file was invoked
    nested,         \* per thread: a public call made while holding the lock
    \* ---- SSHClient (SpecSSH)
    ssh,            \* the client and the call in progress (fields below)
    ssh_obs,        \* what an observer of the call has seen (fields below)
    \* ---- ADBClient (SpecADB)
    adb,            \* the client and the call in progress
    adb_obs,        \* what an observer of the call has seen
    \* ---- LockClient as a context manager (SpecScope)
    scope,          \* position in `with client:` and the client's state
    cleanup,        \* LockClient._cleanup, in insertion order
    cmd_log,        \* the commands __exit__ has issued, in order
    \* ---- PosixImplementationHandler (SpecSampler)
    sm_threads,     \* handler._threads: kind -> id of its worker thread
    sm_results,     \* handler._results: kind -> the buffers handed over
    worker,         \* per kind: the newest worker thread and its locals
    caller,         \* the thread calling start / stop, and its last call
    \* ---- QNXHandler (SpecQnx)
    qnx,            \* the handler, its CPU workers and its last call
    \* ---- _thread_loop against a clock (SpecCadence)
    cad,            \* the clock, the loop's locals and the stop call
    \* ---- DelegatedExecutionThread (SpecReader)
    rd,             \* the reader thread, its locals and its consumer
    \* ---- BaseRemoteperfModel (SpecSerial)
    ser,            \* a record and the steps of its round trip
    \* ---- _process_cpu_measurements (SpecFold)
    fb,             \* the buffers of one worker with the CPU fold
    \* ---- the Linux CPU parsers (SpecParse)
    prs,            \* a pair of snapshots and what the handler made of it
    \* ---- SSHClient with jump_client (SpecJump)
    jump,           \* the two clients, their locks and their two callers
    \* ---- QNXHandler._process_cpu_measurements (SpecQnxFold)
    qf              \* the readers, the worker's buffers and the stop call

lockVars ==
    <<call_lock, fs, op, stage, inside, eff_dest, outcome, transferred, nested>>
sshVars == <<ssh, ssh_obs>>
adbVars == <<adb, adb_obs>>
scopeVars == <<scope, cleanup, cmd_log>>
samplerVars == <<sm_threads, sm_results, worker, caller>>
qnxVars == <<qnx>>
cadVars == <<cad>>
readerVars == <<rd>>
serialVars == <<ser>>
foldVars == <<fb>>
parseVars == <<prs>>
jumpVars == <<jump>>
qnxFoldVars == <<qf>>

\* The groups of the transport and sampler specifications, and the groups
\* of the specifications written after them.
coreVars == <<lockVars, sshVars, adbVars, scopeVars, samplerVars>>
newVars == <<qnxVars, cadVars, readerVars, serialVars, foldVars, parseVars,
    jumpVars, qnxFoldVars>>

\* What the actions of each later specification leave unchanged.
qnxRest == <<coreVars, cadVars, readerVars, serialVars, foldVars,
    parseVars, jumpVars, qnxFoldVars>>
cadRest == <<coreVars, qnxVars, readerVars, serialVars, foldVars,
    parseVars, jumpVars, qnxFoldVars>>
readerRest == <<coreVars, qnxVars, cadVars, serialVars, foldVars,
    parseVars, jumpVars, qnxFoldVars>>
serialRest == <<coreVars, qnxVars, cadVars, readerVars, foldVars,
    parseVars, jumpVars, qnxFoldVars>>
foldRest == <<coreVars, qnxVars, cadVars, readerVars, serialVars,
    parseVars, jumpVars, qnxFoldVars>>
parseRest == <<coreVars, qnxVars, cadVars, readerVars, serialVars,
    foldVars, jumpVars, qnxFoldVars>>
jumpRest == <<coreVars, qnxVars, cadVars, readerVars, serialVars, foldVars,
    parseVars, qnxFoldVars>>
qnxFoldRest == <<coreVars, qnxVars, cadVars, readerVars, serialVars,
    foldVars, parseVars, jumpVars>>

vars == <<coreVars, newVars>>

\* =====================================================================
\* LockClient: lock, public operations, transfer validation
\* =====================================================================
Threads == 1..NThreads
NoThread == 0

SrcKinds == {"file", "unreadable", "dir", "missing"}
DestKinds == {"dir", "file_w", "file_ro", "absent", "absent_noparent"}
ChildKinds == {"absent", "file_w", "file_ro"}

\* The file-system situations a transfer can meet.  src is the source path,
\* dest the destination as given, child the entry dest/basename(src) (which
\* can only exist when dest is a directory).
FsConfigs ==
    {f \in [src : SrcKinds, dest : DestKinds, child : ChildKinds] :
        f.dest # "dir" => f.child = "absent"}

PublicOps == {"connect", "run_command", "disconnect", "pull_file", "push_file"}

\* Path predicates, as pathlib / os.access answer them locally and as
\* RemoteFs answers them through `[ -x path ] && echo True || echo False`.
IsDir(f, p) == p = "dest" /\ f.dest = "dir"
Exists(f, p) ==
    CASE p = "dest" -> f.dest \in {"dir", "file_w", "file_ro"}
      [] p = "parent" -> f.dest # "absent_noparent"
      [] p = "dest/name" -> f.child \in {"file_w", "file_ro"}
      [] p = "src" -> f.src # "missing"
      [] OTHER -> FALSE
Writable(f, p) ==
    CASE p = "dest" -> f.dest \in {"dir", "file_w"}
      [] p = "dest/name" -> f.child = "file_w"
      [] OTHER -> FALSE
IsFile(f, p) == p = "src" /\ f.src \in {"file", "unreadable"}
SrcIsDir(f) == f.src = "dir"
Readable(f, p) == p = "src" /\ f.src \in {"file", "dir"}

\* What a remote probe (RemoteFs._conditional_check) answers at a stage.
ProbeResult(f, s, d) ==
    CASE s = "is_file_src" -> IsFile(f, "src")
      [] s = "is_directory_src" -> SrcIsDir(f)
      [] s = "has_read_src" -> Readable(f, "src")
      [] s = "is_directory_dest" -> IsDir(f, "dest")
      [] s = "exists_parent" -> Exists(f, "parent")
      [] s = "exists_dest" -> Exists(f, "dest")
      [] s = "is_directory_dest2" -> IsDir(f, "dest")
      [] s = "exists_eff" -> Exists(f, d)
      [] s = "has_write_eff" -> Writable(f, d)
      [] OTHER -> TRUE

ProbeStages ==
    {"is_file_src", "is_directory_src", "has_read_src", "is_directory_dest",
     "exists_parent", "exists_dest", "is_directory_dest2", "exists_eff",
     "has_write_eff"}
ImplStages == {"impl", "transfer"}
LockedStages == ProbeStages \cup ImplStages

\* `_dest = _dest / _path.name`: the destination inside the directory dest.
JoinNameBroken(d) == d
JoinName(d) == IF d = "dest" THEN "dest/name" ELSE d

\* pull_file: `if not has_read_permissions(path): raise`, else the transfer.
ReadCheckBroken(r) == "transfer"
ReadCheck(r) == IF r THEN "transfer" ELSE "raise"

\* pull_file: the local destination checks.  The result is the pair
\* <<next stage, _dest>>; next stage "raise" is `raise self._exception`.
PullLocalDest(f) ==
    LET d == IF ~IsDir(f, "dest") THEN "dest" ELSE JoinName("dest")
    IN  IF ~IsDir(f, "dest") /\ ~Exists(f, "parent") THEN <<"raise", "dest">>
        ELSE IF Exists(f, d) /\ ~Writable(f, d) THEN <<"raise", d>>
        ELSE <<"is_file_src", d>>

\* push_file: the local source checks that precede the transfer.
PushLocalSrc(f) ==
    IF ~IsFile(f, "src") THEN "raise"
    ELSE IF ~Readable(f, "src") THEN "raise"
    ELSE "transfer"

\* Where a method goes after the probe of stage s answered r; the result is
\* <<next stage, _dest>>.
AfterProbe(o, s, r, d) ==
    CASE s = "is_file_src" -> <<IF r THEN "has_read_src" ELSE "is_directory_src", d>>
      [] s = "is_directory_src" -> <<"raise", d>>
      [] s = "has_read_src" -> <<ReadCheck(r), d>>
      [] s = "is_directory_dest" ->
            <<IF r THEN "exists_dest" ELSE "exists_parent", "dest">>
      [] s = "exists_parent" -> <<IF r THEN "exists_eff" ELSE "raise", d>>
      [] s = "exists_dest" -> <<IF r THEN "is_directory_dest2" ELSE "raise", d>>
      [] s = "is_directory_dest2" ->
            IF r THEN <<"exists_eff", JoinName(d)>> ELSE <<"raise", d>>
      [] s = "exists_eff" -> <<IF r THEN "has_write_eff" ELSE "local_src", d>>
      [] s = "has_write_eff" -> <<IF r THEN "local_src" ELSE "raise", d>>
      [] OTHER -> <<"raise", d>>

FirstStage(o) ==
    CASE o = "pull_file" -> "local_dest"
      [] o = "push_file" -> "is_directory_dest"
      [] OTHER -> "impl"

\* `with self._call_lock`: the lock can be taken only when nobody holds it.
LockFreeBroken == TRUE
LockFree == call_lock = NoThread

InitLock ==
    /\ call_lock = NoThread
    /\ fs \in FsConfigs
    /\ op = [t \in Threads |-> "none"]
    /\ stage = [t \in Threads |-> "idle"]
    /\ inside = [t \in Threads |-> FALSE]
    /\ eff_dest = [t \in Threads |-> "unset"]
    /\ outcome = [t \in Threads |-> "none"]
    /\ transferred = [t \in Threads |-> FALSE]
    /\ nested = [t \in Threads |-> "none"]

\* The lock group at rest, for the specifications that do not move it.
LockParked ==
    /\ InitLock
    /\ fs = [src |-> "file", dest |-> "absent", child |-> "absent"]

\* A thread enters a public method.
Call(t, o) ==
    /\ stage[t] = "idle"
    /\ op' = [op EXCEPT ![t] = o]
    /\ stage' = [stage EXCEPT ![t] = FirstStage(o)]
    /\ eff_dest' = [eff_dest EXCEPT ![t] = IF o = "push_file" THEN "dest" ELSE "unset"]
    /\ outcome' = [outcome EXCEPT ![t] = "none"]
    /\ transferred' = [transferred EXCEPT ![t] = FALSE]
    /\ UNCHANGED <<call_lock, fs, inside, nested, sshVars, adbVars, scopeVars, samplerVars,
                   newVars>>

\* The checks pull_file and push_file make on the local file system, which
\* need no command on the transport.
LocalCheck(t) ==
    /\ stage[t] \in {"local_dest", "local_src"}
    /\ LET nxt == IF stage[t] = "local_dest" THEN PullLocalDest(fs)
                  ELSE <<PushLocalSrc(fs), eff_dest[t]>>
       IN  /\ eff_dest' = [eff_dest EXCEPT ![t] = nxt[2]]
           /\ IF nxt[1] = "raise"
              THEN /\ stage' = [stage EXCEPT ![t] = "idle"]
                   /\ outcome' = [outcome EXCEPT ![t] = "exception"]
              ELSE /\ stage' = [stage EXCEPT ![t] = nxt[1]]
                   /\ UNCHANGED outcome
    /\ UNCHANGED <<call_lock, fs, op, inside, transferred, nested,
                   sshVars, adbVars, scopeVars, samplerVars, newVars>>

\* self._cleanup[path] = flags on an insertion-ordered dict: a known key
\* keeps its place, a new key goes last.
DictSet(c, p, f) ==
    IF \E i \in DOMAIN c : c[i].path = p
    THEN [i \in DOMAIN c |->
            IF c[i].path = p THEN [path |-> p, flags |-> f] ELSE c[i]]
    ELSE Append(c, [path |-> p, flags |-> f])

\* The path DelegatedExecutionThread registers: "/tmp/remoteperf_delayed_*".
DelayedPath == 1

\* DelegatedExecutionThread.__init__, run by the thread that takes a QNX
\* CPU measurement (a sampler worker or a user thread):
\* client.add_cleanup(...) writes the registry at once, then
\* client.run_command(command) is called.
DelegatedInit(t) ==
    /\ stage[t] = "idle"
    /\ cleanup' = DictSet(cleanup, DelayedPath, "None")
    /\ op' = [op EXCEPT ![t] = "run_command"]
    /\ stage' = [stage EXCEPT ![t] = "impl"]
    /\ eff_dest' = [eff_dest EXCEPT ![t] = "unset"]
    /\ outcome' = [outcome EXCEPT ![t] = "none"]
    /\ transferred' = [transferred EXCEPT ![t] = FALSE]
    /\ UNCHANGED <<call_lock, fs, inside, nested, sshVars, adbVars, scope, cmd_log, samplerVars,
                   newVars>>

\* The thread is at a `with self._call_lock:` statement: of the public
\* method it called, or of a public method called from inside an
\* implementation it is executing.
AtWith(t) ==
    IF inside[t] THEN nested[t] = "waiting" ELSE stage[t] \in LockedStages

\* The thread that executes an implementation (and so holds the lock) calls
\* connect, run_command or disconnect of the same client: _log_lock finds
\* the lock taken and logs, then the method reaches `with self._call_lock`.
NestedCall(t) ==
    /\ inside[t]
    /\ nested[t] = "none"
    /\ nested' = [nested EXCEPT ![t] = "waiting"]
    /\ UNCHANGED <<call_lock, fs, op, stage, inside, eff_dest, outcome,
                   transferred, sshVars, adbVars, scopeVars, samplerVars,
                   newVars>>

\* `with self._call_lock:` entered; the transport-specific implementation
\* (or the run_command of a probe) starts.
Acquire(t) ==
    /\ AtWith(t)
    /\ LockFree
    /\ call_lock' = t
    /\ IF inside[t]
       THEN /\ nested' = [nested EXCEPT ![t] = "inside"]
            /\ UNCHANGED <<inside, transferred>>
       ELSE /\ inside' = [inside EXCEPT ![t] = TRUE]
            /\ transferred' =
                  [transferred EXCEPT ![t] = transferred[t] \/ stage[t] = "transfer"]
            /\ UNCHANGED nested
    /\ UNCHANGED <<fs, op, stage, eff_dest, outcome, sshVars, adbVars, scopeVars, samplerVars,
                   newVars>>

\* The implementation returns; the `with` block releases the lock.  When it
\* is the implementation of a nested call, the caller's goes on.
ImplReturn(t) ==
    /\ inside[t]
    /\ nested[t] \in {"none", "inside"}
    /\ call_lock' = NoThread
    /\ IF nested[t] = "inside"
       THEN /\ nested' = [nested EXCEPT ![t] = "returned"]
            /\ UNCHANGED <<inside, stage, eff_dest, outcome>>
       ELSE /\ inside' = [inside EXCEPT ![t] = FALSE]
            /\ UNCHANGED nested
            /\ IF stage[t] \in ProbeStages
               THEN LET nxt == AfterProbe(op[t], stage[t],
                                   ProbeResult(fs, stage[t], eff_dest[t]),
                                   eff_dest[t])
                    IN  /\ eff_dest' = [eff_dest EXCEPT ![t] = nxt[2]]
                        /\ IF nxt[1] = "raise"
                           THEN /\ stage' = [stage EXCEPT ![t] = "idle"]
                                /\ outcome' = [outcome EXCEPT ![t] = "exception"]
                           ELSE /\ stage' = [stage EXCEPT ![t] = nxt[1]]
                                /\ UNCHANGED outcome
               ELSE /\ stage' = [stage EXCEPT ![t] = "idle"]
                    /\ outcome' = [outcome EXCEPT ![t] = "returned"]
                    /\ UNCHANGED eff_dest
    /\ UNCHANGED <<fs, op, transferred, sshVars, adbVars, scopeVars, samplerVars,
                   newVars>>

\* The implementation raises the transport's error (or, after a nested call
\* released the lock, the release of the unlocked lock raises); the `with`
\* block ends and the error leaves the public method.
ImplRaise(t) ==
    /\ inside[t]
    /\ nested[t] \in {"none", "returned"}
    /\ call_lock' = NoThread
    /\ inside' = [inside EXCEPT ![t] = FALSE]
    /\ nested' = [nested EXCEPT ![t] = "none"]
    /\ stage' = [stage EXCEPT ![t] = "idle"]
    /\ outcome' = [outcome EXCEPT ![t] = "exception"]
    /\ UNCHANGED <<fs, op, eff_dest, transferred, sshVars, adbVars, scopeVars, samplerVars,
                   newVars>>

NextLock ==
    \/ \E t \in Threads, o \in PublicOps : Call(t, o)
    \/ \E t \in Threads : DelegatedInit(t)
    \/ \E t \in Threads : LocalCheck(t)
    \/ \E t \in Threads : NestedCall(t)
    \/ \E t \in Threads : Acquire(t)
    \/ \E t \in Threads : ImplReturn(t)
    \/ \E t \in Threads : ImplRaise(t)


\* =====================================================================
\* SSHClient: connect, disconnect and the retry / recovery loops
\* =====================================================================
\* self._client is None, or the paramiko session it holds (sessions are
\* numbered in the order they are established).
None == 0

\* The `retries` argument of a call: not given (None), or an integer.
RetryArgs ==
    {[given |-> FALSE, val |-> 0]} \cup
    {[given |-> TRUE, val |-> v] : v \in (0 - 1)..MaxRetries}

Max(a, b) == IF a >= b THEN a ELSE b

\* SSHClient.__init__: self._retries = retries if retries >= 0 else 0
CtorRetries(r) == IF r >= 0 THEN r ELSE 0

\* Python's `retries or self._retries`: None and 0 are both falsy.
OrDefault(arg, default) ==
    IF arg.given /\ arg.val # 0 THEN arg.val ELSE default

\* _run_command: _retries = max(retries or self._retries, 0)
SshRetries(arg, default) == Max(OrDefault(arg, default), 0)

\* _pull_file / _push_file: range(1, max(self._retries, 0) + 2)
SshTransferRetries(default) == Max(default, 0)

SshOps == {"run_command", "pull_file", "push_file"}

\* How one attempt can end.  A command or a transfer succeeds only on a
\* live transport; on a dead one opening the session or the sftp channel
\* fails with an error that is not an IOError.
AttemptOutcomes(o, alive) ==
    IF ~alive THEN {"error"}
    ELSE IF o = "run_command" THEN {"ok", "timeout", "error"}
    ELSE {"ok", "ioerror", "error"}

\* The except clauses of the three loops: what follows a failed attempt.
\* _pull_file and _push_file re-raise an IOError at once; every other
\* failure goes through _recover_connection.
OnFailureBroken(o, kind) == "recover"
OnFailure(o, kind) ==
    IF o \in {"pull_file", "push_file"} /\ kind = "ioerror"
    THEN "raise" ELSE "recover"

\* SSHClient._transport_alive as _recover_connection consults it.
TransportAliveBroken(alive) == TRUE
TransportAlive(alive) == alive

\* The client between calls.
SshIdle(retries) ==
    [client |-> None, alive |-> FALSE, sessions |-> 0, retries |-> retries,
     pc |-> "idle", op |-> "none", arg |-> [given |-> FALSE, val |-> 0],
     n |-> 0, attempt |-> 0, error |-> "none", result |-> "none"]

\* Observations of one call, reset when a call starts.
ObsReset(calls) ==
    [calls |-> calls, attempts |-> 0, probes |-> 0, reconnects |-> 0,
     all_timeout |-> TRUE, failed_on |-> None, dead_at_probe |-> FALSE,
     last |-> "none", at_last |-> <<0, 0, 0>>]

Connected == ssh.client # None

InitSSH ==
    /\ \E r \in (0 - 1)..MaxRetries : ssh = SshIdle(CtorRetries(r))
    /\ ssh_obs = ObsReset(0)

\* connect(): _connect returns at once when connected; otherwise the
\* paramiko connect succeeds or raises SSHClientException.
SshConnect(ok) ==
    /\ ssh.pc = "idle"
    /\ ssh_obs.calls < MaxCalls
    /\ ssh_obs' = ObsReset(ssh_obs.calls + 1)
    /\ IF Connected
       THEN ssh' = [ssh EXCEPT !.op = "connect", !.result = "returned"]
       ELSE IF ok
       THEN ssh' = [ssh EXCEPT !.op = "connect", !.result = "returned",
                               !.client = ssh.sessions + 1,
                               !.sessions = ssh.sessions + 1,
                               !.alive = TRUE]
       ELSE ssh' = [ssh EXCEPT !.op = "connect", !.result = "SSHClientException"]
    /\ UNCHANGED <<lockVars, adbVars, scopeVars, samplerVars, newVars>>

\* disconnect(): _disconnect raises when there is no client, else closes it.
SshDisconnect ==
    /\ ssh.pc = "idle"
    /\ ssh_obs.calls < MaxCalls
    /\ ssh_obs' = ObsReset(ssh_obs.calls + 1)
    /\ IF ~Connected
       THEN ssh' = [ssh EXCEPT !.op = "disconnect", !.result = "SSHClientException"]
       ELSE ssh' = [ssh EXCEPT !.op = "disconnect", !.result = "returned",
                               !.client = None, !.alive = FALSE]
    /\ UNCHANGED <<lockVars, adbVars, scopeVars, samplerVars, newVars>>

\* The transport of the session dies (network loss, peer reset).
TransportCrash ==
    /\ Connected
    /\ ssh.alive
    /\ ssh' = [ssh EXCEPT !.alive = FALSE]
    /\ UNCHANGED <<ssh_obs, lockVars, adbVars, scopeVars, samplerVars, newVars>>

\* _run_command / _pull_file / _push_file up to the loop: the retry count
\* is fixed, and _run_command refuses to run when not connected.
SshCall(o, arg) ==
    /\ ssh.pc = "idle"
    /\ ssh_obs.calls < MaxCalls
    /\ ssh_obs' = ObsReset(ssh_obs.calls + 1)
    /\ LET n == IF o = "run_command" THEN SshRetries(arg, ssh.retries)
                ELSE SshTransferRetries(ssh.retries)
       IN  IF o = "run_command" /\ ~Connected
           THEN ssh' = [ssh EXCEPT !.op = o, !.arg = arg, !.n = n, !.attempt = 0,
                                   !.error = "none",
                                   !.result = "SSHClientException"]
           ELSE ssh' = [ssh EXCEPT !.op = o, !.arg = arg, !.n = n, !.attempt = 1,
                                   !.error = "none", !.result = "none",
                                   !.pc = "attempt"]
    /\ UNCHANGED <<lockVars, adbVars, scopeVars, samplerVars, newVars>>

\* One pass through the try block of the loop.
SshAttempt(kind) ==
    /\ ssh.pc = "attempt"
    /\ kind \in AttemptOutcomes(ssh.op, Connected /\ ssh.alive)
    /\ ssh_obs' = [ssh_obs EXCEPT
                     !.attempts = ssh_obs.attempts + 1,
                     !.all_timeout = ssh_obs.all_timeout /\ kind = "timeout",
                     !.last = kind,
                     !.failed_on = IF kind = "ok" THEN ssh_obs.failed_on
                                   ELSE ssh.client,
                     !.at_last = <<ssh_obs.attempts + 1, ssh_obs.probes,
                                 ssh_obs.reconnects>>]
    /\ IF kind = "ok"
       THEN ssh' = [ssh EXCEPT !.pc = "idle", !.result = "output"]
       ELSE IF OnFailure(ssh.op, kind) = "raise"
       THEN ssh' = [ssh EXCEPT !.pc = "idle", !.error = kind,
                               !.result = "SSHClientException"]
       ELSE ssh' = [ssh EXCEPT !.pc = "recover", !.error = kind]
    /\ UNCHANGED <<lockVars, adbVars, scopeVars, samplerVars, newVars>>

\* The end of one pass of the loop: the next attempt, or the raise that
\* follows the loop.
LoopNext(c) ==
    IF c.attempt < c.n + 1
    THEN [c EXCEPT !.pc = "attempt", !.attempt = c.attempt + 1]
    ELSE [c EXCEPT !.pc = "idle", !.result = "SSHClientException"]

\* The _connect of _recover_connection raises: the SSHClientException
\* leaves the except clause of the loop, and with it the call.
ReconnectFailed(c) == [c EXCEPT !.pc = "idle", !.result = "SSHClientException"]

\* _recover_connection up to and including _disconnect.
SshRecover ==
    /\ ssh.pc = "recover"
    /\ ssh_obs' = [ssh_obs EXCEPT
                     !.probes = IF Connected THEN ssh_obs.probes + 1
                                ELSE ssh_obs.probes,
                     !.dead_at_probe = Connected /\ ~ssh.alive]
    /\ IF ~Connected
       THEN ssh' = [ssh EXCEPT !.pc = "idle", !.result = "SSHClientException"]
       ELSE IF ~TransportAlive(ssh.alive)
       THEN ssh' = [ssh EXCEPT !.pc = "reconnect", !.client = None,
                               !.alive = FALSE]
       ELSE ssh' = LoopNext(ssh)
    /\ UNCHANGED <<lockVars, adbVars, scopeVars, samplerVars, newVars>>

\* The _connect of _recover_connection: a new session, or
\* SSHClientException out of the whole call with the client left None.
SshReconnect(ok) ==
    /\ ssh.pc = "reconnect"
    /\ ssh_obs' = [ssh_obs EXCEPT !.reconnects = ssh_obs.reconnects + 1]
    /\ IF ok
       THEN ssh' = LoopNext([ssh EXCEPT !.client = ssh.sessions + 1,
                                        !.sessions = ssh.sessions + 1,
                                        !.alive = TRUE])
       ELSE ssh' = ReconnectFailed(ssh)
    /\ UNCHANGED <<lockVars, adbVars, scopeVars, samplerVars, newVars>>

NextSSH ==
    \/ \E ok \in BOOLEAN : SshConnect(ok)
    \/ SshDisconnect
    \/ TransportCrash
    \/ \E o \in SshOps, arg \in RetryArgs : SshCall(o, arg)
    \/ \E kind \in {"ok", "timeout", "ioerror", "error"} : SshAttempt(kind)
    \/ SshRecover
    \/ \E ok \in BOOLEAN : SshReconnect(ok)

\* =====================================================================
\* ADBClient: connect, disconnect and the retry loop of _run_command
\* =====================================================================
\* _run_command: _retries = max(retries or self._retries, 1)
AdbRetries(arg, default) == Max(OrDefault(arg, default), 1)

\* The test of the AdbTimeout handler: `if attempt >= _retries: raise`.
AdbGiveUp(attempt, n) == attempt >= n

\* The client between calls (ADBClient.__init__ keeps retries as given).
AdbIdle(retries) ==
    [session |-> FALSE, device |-> FALSE, retries |-> retries,
     pc |-> "idle", op |-> "none", arg |-> [given |-> FALSE, val |-> 0],
     n |-> 0, attempt |-> 0, result |-> "none"]

AdbObsReset(calls) ==
    [calls |-> calls, attempts |-> 0, recoveries |-> 0, all_timeout |-> TRUE]

\* ADBClient.connected
AdbConnected == adb.session /\ adb.device

InitADB ==
    /\ \E r \in (0 - 1)..MaxRetries : adb = AdbIdle(r)
    /\ adb_obs = AdbObsReset(0)

\* connect(): _connect returns at once when connected.  Otherwise it
\* stores the daemon session, lists the devices (which may raise), stores
\* the device and asks for its state (which may raise).
AdbConnect(how) ==
    /\ adb.pc = "idle"
    /\ adb_obs.calls < MaxCalls
    /\ adb_obs' = AdbObsReset(adb_obs.calls + 1)
    /\ IF AdbConnected
       THEN adb' = [adb EXCEPT !.op = "connect", !.result = "returned"]
       ELSE CASE how = "ok" ->
                    adb' = [adb EXCEPT !.op = "connect", !.result = "returned",
                                       !.session = TRUE, !.device = TRUE]
              [] how = "daemon_error" ->
                    adb' = [adb EXCEPT !.op = "connect",
                                       !.result = "ADBClientException",
                                       !.session = TRUE]
              [] OTHER ->
                    adb' = [adb EXCEPT !.op = "connect",
                                       !.result = "ADBClientException",
                                       !.session = TRUE, !.device = TRUE]
    /\ UNCHANGED <<lockVars, sshVars, scopeVars, samplerVars, newVars>>

\* disconnect(): whatever the daemon answers, self._device becomes None.
AdbDisconnect ==
    /\ adb.pc = "idle"
    /\ adb_obs.calls < MaxCalls
    /\ adb_obs' = AdbObsReset(adb_obs.calls + 1)
    /\ adb' = [adb EXCEPT !.op = "disconnect", !.result = "returned",
                          !.device = FALSE]
    /\ UNCHANGED <<lockVars, sshVars, scopeVars, samplerVars, newVars>>

\* _run_command up to the loop.
AdbCall(arg) ==
    /\ adb.pc = "idle"
    /\ adb_obs.calls < MaxCalls
    /\ adb_obs' = AdbObsReset(adb_obs.calls + 1)
    /\ IF ~AdbConnected
       THEN adb' = [adb EXCEPT !.op = "run_command", !.arg = arg,
                               !.n = AdbRetries(arg, adb.retries),
                               !.attempt = 0,
                               !.result = "ADBClientException"]
       ELSE adb' = [adb EXCEPT !.op = "run_command", !.arg = arg,
                               !.n = AdbRetries(arg, adb.retries),
                               !.attempt = 1, !.result = "none",
                               !.pc = "attempt"]
    /\ UNCHANGED <<lockVars, sshVars, scopeVars, samplerVars, newVars>>

\* The end of one pass of the loop: the next attempt, or the raise that
\* follows the loop.
AdbLoopNext(c) ==
    IF c.attempt < c.n + 1
    THEN [c EXCEPT !.pc = "attempt", !.attempt = c.attempt + 1]
    ELSE [c EXCEPT !.pc = "idle", !.result = "ADBClientException"]

\* One pass through the try block: shell2 returns, times out, or fails
\* with another error.
AdbAttempt(kind) ==
    /\ adb.pc = "attempt"
    /\ adb_obs' = [adb_obs EXCEPT
                     !.attempts = adb_obs.attempts + 1,
                     !.all_timeout = adb_obs.all_timeout /\ kind = "timeout"]
    /\ CASE kind = "ok" ->
                adb' = [adb EXCEPT !.pc = "idle", !.result = "output"]
         [] kind = "timeout" ->
                IF AdbGiveUp(adb.attempt, adb.n)
                THEN adb' = [adb EXCEPT !.pc = "idle",
                                        !.result = "ADBClientException"]
                ELSE adb' = AdbLoopNext(adb)
         [] OTHER ->
                adb' = [adb EXCEPT !.pc = "recover"]
    /\ UNCHANGED <<lockVars, sshVars, scopeVars, samplerVars, newVars>>

\* _recover_connection: True once the device is listed in state "device",
\* ADBClientException when it is not within the timeout.
AdbRecover(ok) ==
    /\ adb.pc = "recover"
    /\ adb_obs' = [adb_obs EXCEPT !.recoveries = adb_obs.recoveries + 1]
    /\ IF ok
       THEN adb' = AdbLoopNext(adb)
       ELSE adb' = [adb EXCEPT !.pc = "idle", !.result = "ADBClientException"]
    /\ UNCHANGED <<lockVars, sshVars, scopeVars, samplerVars, newVars>>

NextADB ==
    \/ \E how \in {"ok", "daemon_error", "device_error"} : AdbConnect(how)
    \/ AdbDisconnect
    \/ \E arg \in RetryArgs : AdbCall(arg)
    \/ \E kind \in {"ok", "timeout", "error"} : AdbAttempt(kind)
    \/ \E ok \in BOOLEAN : AdbRecover(ok)

\* The ADB group at rest, for the specifications that do not move it.
AdbParked ==
    /\ adb = AdbIdle(0)
    /\ adb_obs = AdbObsReset(0)

\* =====================================================================
\* LockClient as a context manager: __enter__, add_cleanup, __exit__
\* =====================================================================
Paths == 1..MaxPaths
Flags == {"None", "-rf"}

\* The exception classes a scope can exit with: none, the base class
\* LockClientException itself, its transport subclasses, anything else.
ExcTypes ==
    {"None", "LockClientException", "SSHClientException",
     "ADBClientException", "OtherException"}
TransportExceptions ==
    {"LockClientException", "SSHClientException", "ADBClientException"}

\* __exit__: `exc_type is not LockClientException` (an identity test).
IsNotLockClientException(e) == e # "LockClientException"

\* f"rm {flags if flags else ''} {path}"
RmCommand(e) ==
    [cmd |-> "rm", flags |-> IF e.flags = "None" THEN "" ELSE e.flags,
     path |-> e.path]
DisconnectCommand == [cmd |-> "disconnect", flags |-> "", path |-> 0]

ScopeOutside ==
    [pc |-> "outside", connected |-> FALSE, exc_type |-> "None",
     idx |-> 0, ops |-> 0, exit_connected |-> FALSE, exit_raised |-> FALSE]

InitScope ==
    /\ scope = ScopeOutside
    /\ cleanup = <<>>
    /\ cmd_log = <<>>

\* __enter__: connect(); when it raises, the body and __exit__ never run.
ScopeEnter(ok) ==
    /\ scope.pc = "outside"
    /\ scope' = IF ok THEN [scope EXCEPT !.pc = "body", !.connected = TRUE]
                ELSE [scope EXCEPT !.pc = "not_entered"]
    /\ UNCHANGED <<cleanup, cmd_log, lockVars, sshVars, adbVars, samplerVars,
                   newVars>>

\* add_cleanup(path, flags), called by the body (directly or through
\* RemoteFs.temporary_directory).
AddCleanup(p, f) ==
    /\ scope.pc = "body"
    /\ scope.ops < MaxBodyOps
    /\ cleanup' = DictSet(cleanup, p, f)
    /\ scope' = [scope EXCEPT !.ops = scope.ops + 1]
    /\ UNCHANGED <<cmd_log, lockVars, sshVars, adbVars, samplerVars, newVars>>

\* The body loses the connection: a recovery inside one of its commands
\* failed, or it called disconnect() itself.
BodyDisconnect ==
    /\ scope.pc = "body"
    /\ scope.connected
    /\ scope' = [scope EXCEPT !.connected = FALSE]
    /\ UNCHANGED <<cleanup, cmd_log, lockVars, sshVars, adbVars, samplerVars,
                   newVars>>

\* The body ends, normally (e = "None") or by raising e; __exit__ starts:
\* `if self._cleanup and exc_type is not LockClientException`.
ScopeExit(e) ==
    /\ scope.pc = "body"
    /\ scope' = [scope EXCEPT
                   !.exc_type = e,
                   !.exit_connected = scope.connected,
                   !.idx = 1,
                   !.pc = IF cleanup # <<>> /\ IsNotLockClientException(e)
                          THEN "cleanup" ELSE "disconnect"]
    /\ UNCHANGED <<cleanup, cmd_log, lockVars, sshVars, adbVars, samplerVars,
                   newVars>>

\* One pass of the cleanup loop: run_command("rm ...").  Not connected, it
\* raises before anything is sent.  Connected, the command is sent and
\* run_command returns ("ok"), raises with the session kept ("raise"), or
\* raises after a failed reconnection ("raise_lost").
ExitRemove(how) ==
    /\ scope.pc = "cleanup"
    /\ IF ~scope.connected
       THEN /\ scope' = [scope EXCEPT !.pc = "exited", !.exit_raised = TRUE]
            /\ UNCHANGED cmd_log
       ELSE /\ cmd_log' = Append(cmd_log, RmCommand(cleanup[scope.idx]))
            /\ CASE how = "ok" ->
                        scope' = [scope EXCEPT
                                    !.idx = scope.idx + 1,
                                    !.pc = IF scope.idx < Len(cleanup)
                                           THEN "cleanup" ELSE "disconnect"]
                 [] how = "raise" ->
                        scope' = [scope EXCEPT !.pc = "exited",
                                               !.exit_raised = TRUE]
                 [] OTHER ->
                        scope' = [scope EXCEPT !.pc = "exited",
                                               !.exit_raised = TRUE,
                                               !.connected = FALSE]
    /\ UNCHANGED <<cleanup, lockVars, sshVars, adbVars, samplerVars, newVars>>

\* The disconnect() that ends __exit__: _disconnect raises when there is no
\* session and closes it otherwise.
ExitDisconnect ==
    /\ scope.pc = "disconnect"
    /\ IF scope.connected
       THEN /\ scope' = [scope EXCEPT !.pc = "exited", !.connected = FALSE]
            /\ cmd_log' = Append(cmd_log, DisconnectCommand)
       ELSE /\ scope' = [scope EXCEPT !.pc = "exited", !.exit_raised = TRUE]
            /\ UNCHANGED cmd_log
    /\ UNCHANGED <<cleanup, lockVars, sshVars, adbVars, samplerVars, newVars>>

NextScope ==
    \/ \E ok \in BOOLEAN : ScopeEnter(ok)
    \/ \E p \in Paths, f \in Flags : AddCleanup(p, f)
    \/ BodyDisconnect
    \/ \E e \in ExcTypes : ScopeExit(e)
    \/ \E how \in {"ok", "raise", "raise_lost"} : ExitRemove(how)
    \/ ExitDisconnect

\* The scope group at rest, for the specifications that do not move it.
ScopeParked == InitScope

\* The SSH group at rest, for the specifications that do not move it.
SshParked ==
    /\ ssh = SshIdle(0)
    /\ ssh_obs = ObsReset(0)

\* =====================================================================
\* PosixImplementationHandler: the sampling engine
\* =====================================================================
\* The measurement kinds (the keys of _threads and _results) and the
\* processing_function start_* passes with each: start_cpu_measurement
\* passes none, start_cpu_measurement_proc_wise passes
\* _process_cpu_measurements.
Kinds == {"cpu", "cpu_proc"}
KindFold(k) == IF k = "cpu_proc" THEN "cpu" ELSE "none"

Procs == 1..MaxProcs
Intervals == (0 - 1)..MaxInterval

\* What one call of take_measurement_function does: the command raises,
\* or it returns text: a snapshot listing some processes, or text that a
\* parser cannot read.
Measurements ==
    {[res |-> "raise", procs |-> {}], [res |-> "garbage", procs |-> {}]}
    \cup {[res |-> "data", procs |-> P] : P \in SUBSET Procs}

\* processed_results: per process the number of samples folded for it; the
\* empty dict (and the None of a sampler without fold) is all zeros.
NoProcessed == [p \in Procs |-> 0]
IsEmpty(processed) == \A p \in Procs : processed[p] = 0

\* BaseLinuxHandler._process_cpu_measurements: `return results[-1:], ...`.
KeepLastBroken(results) == results
KeepLast(results) == <<results[Len(results)]>>

\* BaseLinuxHandler._process_cpu_measurements: with fewer than two raw
\* samples nothing is folded; else the first two are differenced (a
\* ParsingError becomes a BaseLinuxHandlerException), every process of the
\* second that is also in the first gets one sample, and the raw buffer
\* keeps its last element.
ProcessCpu(results, processed) ==
    IF Len(results) < 2
    THEN [exc |-> "None", results |-> results, processed |-> processed]
    ELSE IF ~results[1].good \/ ~results[2].good
    THEN [exc |-> "BaseLinuxHandlerException", results |-> results,
          processed |-> processed]
    ELSE [exc |-> "None",
          results |-> KeepLast(results),
          processed |->
              [p \in Procs |->
                  IF p \in results[1].procs \cap results[2].procs
                  THEN processed[p] + 1 ELSE processed[p]]]

\* PosixImplementationHandler.__sample: append the measurement, then fold.
Sample(results, processed, m, fold) ==
    IF m.res = "raise"
    THEN [exc |-> "ClientException", results |-> results, processed |-> processed]
    ELSE LET r == Append(results, [good |-> m.res = "data", procs |-> m.procs])
         IN  IF fold = "none"
             THEN [exc |-> "None", results |-> r, processed |-> NoProcessed]
             ELSE ProcessCpu(r, processed)

\* _thread_loop, before the loop: one sample into empty buffers.
FirstRunBroken(m, fold) ==
    [exc |-> "None", results |-> <<>>, processed |-> NoProcessed]
FirstRun(m, fold) == Sample(<<>>, NoProcessed, m, fold)

\* _thread_loop, after the loop: `if processing_function and not
\* processed_results`.
NeedsExtraBroken(fold, processed) == FALSE
NeedsExtra(fold, processed) == fold # "none" /\ IsEmpty(processed)

\* _thread_loop: `while not stop_flag.is_set()`, as the worker sees the flag
\* at the top of a pass or when stop_flag.wait(timeout) returns.
StopObservedBroken(w) == FALSE
StopObserved(w) == w.stop_flag

\* _stop_measurement: thread.join() returns once the thread has ended.
JoinedBroken(w) == TRUE
Joined(w) == w.pc \in {"done", "dead"}

\* _start_measurement: `if function in self._threads`.
AlreadyInProgressBroken(k) == FALSE
AlreadyInProgress(k) == sm_threads[k] # 0

\* _stop_measurement: `if function not in self._threads`.
NotInProgressBroken(k) == FALSE
NotInProgress(k) == sm_threads[k] = 0

\* `del self._threads[function]`
DelThreadBroken(k) == sm_threads
DelThread(k) == [sm_threads EXCEPT ![k] = 0]

\* ExceptionThread.run: `except Exception as e: self._exception = e`.
SavedExceptionBroken(e) == "None"
SavedException(e) == e

NoResult == [present |-> FALSE, raw |-> <<>>, processed |-> NoProcessed]

\* `function not in self._results`: the worker of kind k stored nothing.
NothingStoredBroken(k) == FALSE
NothingStored(k) == ~sm_results[k].present

\* A kind without a worker thread (n threads were made for it so far), and
\* a worker as the constructor of ExceptionThread and _start_measurement
\* leave it.  Three fields record what happened in the thread: taken is the
\* history of the texts its measurements returned, raised the exception
\* that left _thread_loop, extra whether the sample after the loop was made.
NoWorker(n) ==
    [id |-> n, pc |-> "none", stop_flag |-> FALSE,
     results |-> <<>>, processed |-> NoProcessed, exception |-> "None",
     taken |-> <<>>, raised |-> "None", extra |-> FALSE]
NewWorker(n) == [NoWorker(n) EXCEPT !.pc = "init"]

CallerIdle ==
    [pc |-> "idle", calls |-> 0, op |-> "none", kind |-> "none", interval |-> 1,
     outcome |-> "none", msg |-> "none", cause |-> "None", output |-> NoResult]

InitSampler ==
    /\ sm_threads = [k \in Kinds |-> 0]
    /\ sm_results = [k \in Kinds |-> NoResult]
    /\ worker = [k \in Kinds |-> NoWorker(0)]
    /\ caller = CallerIdle

\* The sampler group at rest, for the specifications that do not move it.
SamplerParked == InitSampler

\* The texts the measurements of worker w have returned, after one more
\* call that gave m.
Taken(w, m) ==
    IF m.res = "raise" THEN w.taken
    ELSE Append(w.taken, [good |-> m.res = "data", procs |-> m.procs])

\* The worker after a call of __sample that gave s: it goes on with the new
\* buffers, or the exception leaves _thread_loop and ExceptionThread.run
\* saves it.
AfterSample(w, s, m) ==
    IF s.exc # "None"
    THEN [w EXCEPT !.pc = "dead", !.taken = Taken(w, m), !.raised = s.exc,
                   !.exception = SavedException(s.exc)]
    ELSE [w EXCEPT !.pc = "loop", !.taken = Taken(w, m),
                   !.results = s.results, !.processed = s.processed]

RECURSIVE SumTaken(_)
SumTaken(S) ==
    IF S = {} THEN 0
    ELSE LET k == CHOOSE x \in S : TRUE
         IN  Len(worker[k].taken) + SumTaken(S \ {k})

CallEnded(o, k, i, out, msg, cause, output) ==
    [pc |-> "idle", calls |-> caller.calls + 1, op |-> o, kind |-> k,
     interval |-> i, outcome |-> out, msg |-> msg, cause |-> cause, output |-> output]

\* _start_measurement(function, interval, processing_function).  The
\* interval only sets the pace of the worker's loop, which the model leaves
\* open, so it is kept with the call and not with the worker.
StartMeasurement(k, i) ==
    /\ caller.pc = "idle"
    /\ caller.calls < MaxOps
    /\ IF AlreadyInProgress(k)
       THEN /\ caller' = CallEnded("start", k, i, "raised", "already in progress",
                                   "None", NoResult)
            /\ UNCHANGED <<sm_threads, worker>>
       ELSE /\ sm_threads' = [sm_threads EXCEPT ![k] = worker[k].id + 1]
            /\ worker' = [worker EXCEPT ![k] = NewWorker(worker[k].id + 1)]
            /\ caller' = CallEnded("start", k, i, "returned", "none", "None", NoResult)
    /\ UNCHANGED <<sm_results, lockVars, sshVars, adbVars, scopeVars, newVars>>

\* _stop_measurement(function) up to thread.join(): the check of the
\* registry, flag.set(), and the wait for the worker.
StopMeasurement(k) ==
    /\ caller.pc = "idle"
    /\ caller.calls < MaxOps
    /\ IF NotInProgress(k)
       THEN /\ caller' = CallEnded("stop", k, 1, "raised", "not in progress",
                                   "None", NoResult)
            /\ UNCHANGED worker
       ELSE /\ worker' = [worker EXCEPT ![k].stop_flag = TRUE]
            /\ caller' = [caller EXCEPT !.pc = "joining", !.op = "stop",
                                        !.kind = k, !.outcome = "none"]
    /\ UNCHANGED <<sm_threads, sm_results, lockVars, sshVars, adbVars, scopeVars,
                   newVars>>

\* _stop_measurement after thread.join() returned: the worker is dropped
\* from the registry; without a stored result the call raises from the
\* worker's exception, else the result is taken out and returned.  Nothing
\* refers to the thread any more.
StopJoined ==
    /\ caller.pc = "joining"
    /\ Joined(worker[caller.kind])
    /\ sm_threads' = DelThread(caller.kind)
    /\ IF NothingStored(caller.kind)
       THEN /\ caller' = CallEnded("stop", caller.kind, 1, "raised", "worker died",
                                   worker[caller.kind].exception, NoResult)
            /\ UNCHANGED sm_results
       ELSE /\ caller' = CallEnded("stop", caller.kind, 1, "returned", "none",
                                   "None", sm_results[caller.kind])
            /\ sm_results' = [sm_results EXCEPT ![caller.kind] = NoResult]
    /\ worker' = [worker EXCEPT ![caller.kind] = NoWorker(worker[caller.kind].id)]
    /\ UNCHANGED <<lockVars, sshVars, adbVars, scopeVars, newVars>>

\* _thread_loop up to the loop: the first sample.
WorkerFirst(k, m) ==
    /\ worker[k].pc = "init"
    /\ worker' = [worker EXCEPT
                    ![k] = AfterSample(worker[k], FirstRun(m, KindFold(k)), m)]
    /\ UNCHANGED <<sm_threads, sm_results, caller, lockVars, sshVars, adbVars,
                   scopeVars, newVars>>

\* One pass of the loop in which the stop flag is not set and the interval
\* has elapsed (with an interval of zero or less it always has): a sample.
\* The passes that only wait change nothing.
WorkerLoop(k, m) ==
    /\ worker[k].pc = "loop"
    /\ ~StopObserved(worker[k])
    /\ SumTaken(Kinds) < MaxSamples
    /\ worker' = [worker EXCEPT
                    ![k] = AfterSample(worker[k],
                               Sample(worker[k].results, worker[k].processed,
                                      m, KindFold(k)), m)]
    /\ UNCHANGED <<sm_threads, sm_results, caller, lockVars, sshVars, adbVars,
                   scopeVars, newVars>>

\* The loop finds the stop flag set: one more sample when a fold has given
\* nothing yet, then the buffers are stored in _results and the thread ends.
WorkerExit(k, m) ==
    /\ worker[k].pc = "loop"
    /\ StopObserved(worker[k])
    /\ LET w == IF NeedsExtra(KindFold(k), worker[k].processed)
                THEN AfterSample([worker[k] EXCEPT !.extra = TRUE],
                         Sample(worker[k].results, worker[k].processed,
                                m, KindFold(k)), m)
                ELSE worker[k]
       IN  IF w.pc = "dead"
           THEN /\ worker' = [worker EXCEPT ![k] = w]
                /\ UNCHANGED sm_results
           ELSE /\ worker' = [worker EXCEPT ![k] = [w EXCEPT !.pc = "done"]]
                /\ sm_results' =
                      [sm_results EXCEPT
                         ![k] = [present |-> TRUE, raw |-> w.results,
                                 processed |-> w.processed]]
    /\ UNCHANGED <<sm_threads, caller, lockVars, sshVars, adbVars, scopeVars,
                   newVars>>

NextSampler ==
    \/ \E k \in Kinds, i \in Intervals : StartMeasurement(k, i)
    \/ \E k \in Kinds : StopMeasurement(k)
    \/ StopJoined
    \/ \E k \in Kinds, m \in Measurements : WorkerFirst(k, m)
    \/ \E k \in Kinds, m \in Measurements : WorkerLoop(k, m)
    \/ \E k \in Kinds, m \in Measurements : WorkerExit(k, m)

\* =====================================================================
\* QNXHandler: start of the CPU samplers
\* =====================================================================
\* _has_capability("hogs"): the output of `command -v hogs`, empty (falsy)
\* when the target has no hogs.
HasCapabilityBroken(h) == TRUE
HasCapability(h) == h

\* The handler on a target with or without hogs: the registry _threads, per
\* kind the worker thread with the arguments it was given, and the last
\* call made on the handler.
QnxIdle(h) ==
    [hogs |-> h,
     threads |-> [k \in Kinds |-> FALSE],
     worker |-> [k \in Kinds |->
                   [pc |-> "none", interval |-> 1, force |-> FALSE,
                    exception |-> "None"]],
     calls |-> 0,
     missing |-> FALSE,
     last |-> [op |-> "none", kind |-> "none", interval |-> 1, force |-> FALSE,
               outcome |-> "none", exc |-> "None", msg |-> "none"]]

InitQnx == qnx \in {QnxIdle(h) : h \in BOOLEAN}

\* The QNX group at rest, for the specifications that do not move it.
QnxParked == qnx = QnxIdle(TRUE)

\* The handler after a call that ended: what was called and how it ended.
QnxEnded(q, o, k, i, f, exc, msg) ==
    [q EXCEPT !.calls = q.calls + 1,
              !.missing = q.missing \/ exc = "MissingQnxCapabilityException",
              !.last = [op |-> o, kind |-> k, interval |-> i, force |-> f,
                        outcome |-> IF exc = "None" THEN "returned" ELSE "raised",
                        exc |-> exc, msg |-> msg]]

\* _start_measurement as the QNX starts use it: a registered kind is
\* refused, else the worker is made with the interval and the keyword
\* arguments, registered and started.
QnxRegister(q, o, k, i, f) ==
    IF q.threads[k]
    THEN QnxEnded(q, o, k, i, f, "PosixHandlerException", "already in progress")
    ELSE QnxEnded([q EXCEPT !.threads[k] = TRUE,
                            !.worker[k] = [pc |-> "init", interval |-> i,
                                           force |-> f, exception |-> "None"]],
                  o, k, i, f, "None", "none")

\* start_cpu_measurement(interval).  The method has no keyword parameters:
\* a call that passes force=... ends with Python's TypeError.
QnxStartCpu(i, f) ==
    /\ qnx.calls < MaxOps
    /\ qnx' =
         IF f THEN QnxEnded(qnx, "start_cpu", "cpu", i, f, "TypeError", "none")
         ELSE IF i < 1
         THEN QnxEnded(qnx, "start_cpu", "cpu", i, f, "QNXHandlerException",
                       "below 1 second")
         ELSE QnxRegister(qnx, "start_cpu", "cpu", i, f)
    /\ UNCHANGED qnxRest

\* start_cpu_measurement_proc_wise(interval, **kwargs)
QnxStartCpuProcWise(i, f) ==
    /\ qnx.calls < MaxOps
    /\ qnx' =
         IF ~HasCapability(qnx.hogs)
         THEN QnxEnded(qnx, "start_cpu_proc", "cpu_proc", i, f,
                       "MissingQnxCapabilityException", "hogs not found")
         ELSE QnxRegister(qnx, "start_cpu_proc", "cpu_proc", i, f)
    /\ UNCHANGED qnxRest

\* The worker's first sample: _cpu_measurement starts a delegated command;
\* _cpu_measurement_proc_wise first tests the capability and the interval,
\* and what it raises ends the thread.
QnxWorkerFirst(k) ==
    /\ qnx.worker[k].pc = "init"
    /\ LET w == qnx.worker[k]
           exc == IF k = "cpu" THEN "None"
                  ELSE IF ~HasCapability(qnx.hogs)
                  THEN "MissingQnxCapabilityException"
                  ELSE IF w.interval < 1 /\ ~w.force THEN "QNXHandlerException"
                  ELSE "None"
       IN  qnx' = [qnx EXCEPT
                     !.worker[k].pc = IF exc = "None" THEN "loop" ELSE "dead",
                     !.worker[k].exception = exc]
    /\ UNCHANGED qnxRest

\* _stop_measurement(function), called once the worker's first sample is
\* over: an unregistered kind is refused; else the worker is stopped, joined
\* and dropped, and the call raises when the worker had died.
QnxStop(k) ==
    /\ qnx.calls < MaxOps
    /\ qnx.worker[k].pc # "init"
    /\ qnx' =
         IF ~qnx.threads[k]
         THEN QnxEnded(qnx, "stop", k, 1, FALSE, "PosixHandlerException",
                       "not in progress")
         ELSE LET q == [qnx EXCEPT !.threads[k] = FALSE,
                                   !.worker[k].pc = "none"]
              IN  IF qnx.worker[k].pc = "dead"
                  THEN QnxEnded(q, "stop", k, 1, FALSE, "PosixHandlerException",
                                "worker died")
                  ELSE QnxEnded(q, "stop", k, 1, FALSE, "None", "none")
    /\ UNCHANGED qnxRest

NextQnx ==
    \/ \E i \in Intervals, f \in BOOLEAN : QnxStartCpu(i, f)
    \/ \E i \in Intervals, f \in BOOLEAN : QnxStartCpuProcWise(i, f)
    \/ \E k \in Kinds : QnxWorkerFirst(k)
    \/ \E k \in Kinds : QnxStop(k)

\* =====================================================================
\* PosixImplementationHandler._thread_loop against a clock
\* =====================================================================
\* Time is counted in ticks.  The measurement commands take no time: the
\* clock moves only while the worker waits on the stop flag, and a wait
\* with a timeout ends at the timeout or up to MaxJitter ticks later, or
\* at once when the flag is set.  The clock does not step back.

\* The intervals of the runs followed: a quarter of each is a whole number
\* of ticks.
CadIntervals == {4, 8}

\* _thread_loop: `if elapsed_time >= interval`.
Due(elapsed, interval) == elapsed >= interval

\* _thread_loop: `last_run_time += interval`.
AdvanceBroken(last_run, interval, now) == now
Advance(last_run, interval, now) == last_run + interval

\* __sample: `results.append(Sample(data=..., timestamp=datetime.now()))`;
\* n is the rank of the measurement among those the worker has made.
AppendSampleBroken(results, n, now) == <<[n |-> n, ts |-> now]>> \o results
AppendSample(results, n, now) == Append(results, [n |-> n, ts |-> now])

\* _thread_loop: `timeout = min(max(0, interval - elapsed_time), interval / 4)`.
TimeoutBroken(elapsed, interval) == interval * 4
Timeout(elapsed, interval) ==
    LET remaining == IF interval - elapsed > 0 THEN interval - elapsed ELSE 0
        quarter == interval \div 4
    IN  IF remaining < quarter THEN remaining ELSE quarter

\* The worker before its thread runs, for a start call with interval d; fold
\* tells whether the kind has a processing function that pairs the samples
\* (_process_cpu_measurements).
CadNew(d, fold) ==
    [pc |-> "init", interval |-> d, fold |-> fold, now |-> 0,
     start_time |-> 0, last_run |-> 0, wake_at |-> 0,
     results |-> <<>>, processed |-> FALSE, taken |-> 0, in_loop |-> 0,
     stop_flag |-> FALSE, stopped_at |-> 0, returned |-> FALSE,
     output |-> <<>>, extra |-> FALSE, records |-> <<>>, stop_exc |-> "None"]

InitCad == cad \in {CadNew(d, fold) : d \in CadIntervals, fold \in BOOLEAN}
CadParked == cad = CadNew(4, FALSE)

\* __sample on the buffers of c: the measurement is appended with the
\* clock's reading; a pairing fold keeps the newest raw sample once it has
\* two, and gives something (some) when a process is in both of them.
CadSample(c, some) ==
    LET r == AppendSample(c.results, c.taken + 1, c.now)
    IN  IF c.fold /\ Len(r) >= 2
        THEN [c EXCEPT !.results = <<r[Len(r)]>>,
                       !.processed = c.processed \/ some,
                       !.taken = c.taken + 1]
        ELSE [c EXCEPT !.results = r, !.taken = c.taken + 1]

\* _thread_loop up to the loop: last_run_time = time.time(), first sample.
CadFirst ==
    /\ cad.pc = "init"
    /\ cad' = [CadSample([cad EXCEPT !.start_time = cad.now,
                                     !.last_run = cad.now], FALSE)
                 EXCEPT !.pc = "top"]
    /\ UNCHANGED cadRest

\* One pass of the loop with the stop flag not set: a sample when it is
\* due, then the wait, which is skipped when the timeout is zero.
CadPass(some) ==
    /\ cad.pc = "top"
    /\ ~cad.stop_flag
    /\ LET elapsed == cad.now - cad.last_run
           c == IF Due(elapsed, cad.interval)
                THEN CadSample(
                       [cad EXCEPT
                          !.last_run = Advance(cad.last_run, cad.interval, cad.now),
                          !.in_loop = cad.in_loop + 1], some)
                ELSE cad
           timeout == Timeout(elapsed, cad.interval)
       IN  cad' = IF timeout # 0
                  THEN [c EXCEPT !.pc = "wait", !.wake_at = cad.now + timeout]
                  ELSE c
    /\ UNCHANGED cadRest

\* The clock moves while the worker waits and nobody has stopped it.
CadTick ==
    /\ cad.pc = "wait"
    /\ ~cad.stop_flag
    /\ cad.now < cad.wake_at + MaxJitter
    /\ cad.now < MaxTime
    /\ cad' = [cad EXCEPT !.now = cad.now + 1]
    /\ UNCHANGED cadRest

\* stop_flag.wait(timeout) returns: the timeout has passed or the flag is set.
CadWake ==
    /\ cad.pc = "wait"
    /\ cad.stop_flag \/ cad.now >= cad.wake_at
    /\ cad' = [cad EXCEPT !.pc = "top"]
    /\ UNCHANGED cadRest

\* _stop_measurement up to thread.join(): flag.set().
CadStop ==
    /\ cad.pc \in {"top", "wait"}
    /\ ~cad.stop_flag
    /\ cad' = [cad EXCEPT !.stop_flag = TRUE, !.stopped_at = cad.now]
    /\ UNCHANGED cadRest

\* The loop finds the flag set: one more sample when a fold has given
\* nothing, and the thread ends.
CadExit(some) ==
    /\ cad.pc = "top"
    /\ cad.stop_flag
    /\ cad' = [(IF cad.fold /\ ~cad.processed THEN CadSample(cad, some) ELSE cad)
                 EXCEPT !.pc = "done"]
    /\ UNCHANGED cadRest

\* stop_cpu_measurement: `timestamp=s2.timestamp`, the time the record
\* made from s1 and s2 is stamped with.
StampOfBroken(s1, s2) == s1.ts
StampOf(s1, s2) == s2.ts

\* stop_cpu_measurement: `for s1, s2 in zip(results, results[1:])`, one
\* LinuxCpuUsageInfo per pair; a record keeps the ranks of the two samples
\* it was computed from.
LinuxCpuRecords(results) ==
    [i \in 1..(Len(results) - 1) |->
        [first |-> results[i].n, second |-> results[i + 1].n,
         timestamp |-> StampOf(results[i], results[i + 1])]]

\* What a stop call does with the raw samples of the system CPU kind: with
\* fewer than two it takes one more (m tells whether the command gives
\* data or the client raises), then it parses pair after pair; a pair that
\* does not parse (~parsed) raises the handler's exception.
LinuxStopCpu(c, m, parsed) ==
    LET short == Len(c.results) < 2
        raw == IF short THEN AppendSample(c.results, c.taken + 1, c.now)
               ELSE c.results
    IN  IF short /\ m = "raise"
        THEN [c EXCEPT !.stop_exc = "ClientError"]
        ELSE IF ~parsed
        THEN [c EXCEPT !.extra = short, !.stop_exc = "BaseLinuxHandlerException"]
        ELSE [c EXCEPT !.extra = short, !.records = LinuxCpuRecords(raw)]

\* _stop_measurement after thread.join(): the buffers are returned; for the
\* system CPU kind (no fold) stop_cpu_measurement goes on to make its
\* records from them.
CadStopReturn(m, parsed) ==
    /\ cad.pc = "done"
    /\ ~cad.returned
    /\ LET c == [cad EXCEPT !.returned = TRUE, !.output = cad.results]
       IN  cad' = IF cad.fold THEN c ELSE LinuxStopCpu(c, m, parsed)
    /\ UNCHANGED cadRest

NextCad ==
    \/ CadFirst
    \/ \E some \in BOOLEAN : CadPass(some)
    \/ CadTick
    \/ CadWake
    \/ CadStop
    \/ \E some \in BOOLEAN : CadExit(some)
    \/ \E m \in {"data", "raise"}, parsed \in BOOLEAN : CadStopReturn(m, parsed)

\* =====================================================================
\* DelegatedExecutionThread: the delayed read of the scratch file
\* =====================================================================
\* The text of a command's output is a sequence of pieces; NSF is the
\* piece "No such file or directory".
NSF == "No such file or directory"
Texts ==
    {<<>>, <<"cat: ", NSF>>, <<"ls: ", NSF, "\n">>, <<"hello">>, <<"world">>}

\* What client.run_command gives the reader: a text, or it raises.
ReadResults ==
    {[res |-> "text", text |-> t] : t \in Texts}
        \cup {[res |-> "raise", text |-> <<>>]}

\* _delayed_file_read_and_remove: the condition of the while loop,
\* `"No such file or directory" in output or not output`.
NoContent(output) ==
    (\E i \in 1..Len(output) : output[i] = NSF) \/ output = <<>>

\* _delayed_file_read_and_remove: `if _retries <= 0: raise ThreadException`.
RetriesSpentBroken(r) == r < 0
RetriesSpent(r) == r <= 0

\* _delayed_file_read_and_remove: `client.run_command(f"rm {filename}")`.
IssueRemoveBroken(log) == log
IssueRemove(log) == Append(log, "rm")

\* The reader thread as DelegatedExecutionThread.__init__ starts it with
\* retries = n: nothing read yet.  log is the list of the commands the
\* thread has sent, test the list of the outputs it found without content,
\* got what the `output` property gave to the one who read it.
RdNew(n) ==
    [pc |-> "start", retries |-> n, left |-> n, output |-> <<>>,
     test |-> <<>>, log |-> <<>>, exception |-> "None", result |-> <<>>,
     got |-> [outcome |-> "none", exc |-> "None", text |-> <<>>]]

InitReader == rd \in {RdNew(n) : n \in 0..MaxRetries}
ReaderParked == rd = RdNew(0)

\* The thread after a read that gave r: an exception of run_command ends
\* it (ExceptionThread.run keeps the exception); else the while loop is
\* evaluated on the output: with content it is left, without content the
\* output is noted and the thread raises or goes on to read again.
AfterRead(t, r) ==
    LET u == [t EXCEPT !.log = Append(t.log, "cat")]
    IN  IF r.res = "raise"
        THEN [u EXCEPT !.pc = "dead", !.exception = "ClientException"]
        ELSE IF ~NoContent(r.text)
        THEN [u EXCEPT !.pc = "remove", !.output = r.text]
        ELSE IF RetriesSpent(u.left)
        THEN [u EXCEPT !.pc = "dead", !.output = r.text,
                       !.test = Append(u.test, r.text),
                       !.exception = "ThreadException"]
        ELSE [u EXCEPT !.pc = "reread", !.output = r.text,
                       !.test = Append(u.test, r.text)]

\* _delayed_file_read_and_remove up to the loop: the sleep and the first read.
RdFirstRead(r) ==
    /\ rd.pc = "start"
    /\ rd' = AfterRead(rd, r)
    /\ UNCHANGED readerRest

\* The body of the loop after the check of _retries: a read again,
\* `_retries -= 1`, a sleep, and the condition of the loop.
RdReread(r) ==
    /\ rd.pc = "reread"
    /\ rd' = IF r.res = "raise"
             THEN AfterRead(rd, r)
             ELSE AfterRead([rd EXCEPT !.left = rd.left - 1], r)
    /\ UNCHANGED readerRest

\* After the loop: the removal of the file, then `return output`.
RdRemove(raises) ==
    /\ rd.pc = "remove"
    /\ rd' = IF raises
             THEN [rd EXCEPT !.pc = "dead", !.log = IssueRemove(rd.log),
                             !.exception = "ClientException"]
             ELSE [rd EXCEPT !.pc = "done", !.log = IssueRemove(rd.log),
                             !.result = rd.output]
    /\ UNCHANGED readerRest

\* ExceptionThread.output: join(), then the exception of the thread is
\* raised, or its output is returned.
RdOutput ==
    /\ rd.pc \in {"done", "dead"}
    /\ rd.got.outcome = "none"
    /\ rd' = [rd EXCEPT !.got =
                IF rd.exception # "None"
                THEN [outcome |-> "raised", exc |-> rd.exception, text |-> <<>>]
                ELSE [outcome |-> "returned", exc |-> "None", text |-> rd.result]]
    /\ UNCHANGED readerRest

NextReader ==
    \/ \E r \in ReadResults : RdFirstRead(r)
    \/ \E r \in ReadResults : RdReread(r)
    \/ \E raises \in BOOLEAN : RdRemove(raises)
    \/ RdOutput

\* =====================================================================
\* The record models: model_dump, the constructor and the text forms
\* =====================================================================
\* A Python value is a record with a tag t.  A scalar has the tag, the kind
\* k of its text and a number n: an int n is the digits of n; a float is
\* counted in ten-thousandths; a datetime is counted in half seconds, an
\* odd n having a fraction of a second; a str has the text of any kind
\* ("5762" is PyStr("digits", 5762)).
PyInt(n) == [t |-> "int", k |-> "digits", n |-> n]
PyFloat(n) == [t |-> "float", k |-> "decimal", n |-> n]
PyStr(k, n) == [t |-> "str", k |-> k, n |-> n]
PyDatetime(n) == [t |-> "datetime", k |-> "iso", n |-> n]
PyNone == [t |-> "none", k |-> "null", n |-> 0]
PyError == [t |-> "error", k |-> "null", n |-> 0]
PyModel(cls, f) == [t |-> "model", cls |-> cls, f |-> f]
PyDict(f) == [t |-> "map", f |-> f]
PyList(e) == [t |-> "list", e |-> e]

\* The declared types of the fields.
TInt == [c |-> "int"]
TFloat == [c |-> "float"]
TStr == [c |-> "str"]
TDatetime == [c |-> "datetime"]
TNone == [c |-> "none"]
TAny == [c |-> "any"]
TModel(cls) == [c |-> "model", cls |-> cls]
TList(ty) == [c |-> "list", of |-> ty]
TDict(ty) == [c |-> "dict", of |-> ty]
TUnion(args) == [c |-> "union", args |-> args]

\* SystemMemory.mem: `Union[ExtendedMemoryInfo, MemoryInfo]`, in the order
\* get_args gives.
MemUnion == <<TModel("ExtendedMemoryInfo"), TModel("MemoryInfo")>>

\* The attrs classes followed, with the fields of each (three of
\* MemoryInfo's and ExtendedMemoryInfo's six fields are kept).
Classes ==
    {"MemoryInfo", "ExtendedMemoryInfo", "SystemMemory", "BaseCpuSample",
     "CpuSampleProcessInfo", "LinuxBootTimeInfo"}

FieldTypes(cls) ==
    CASE cls = "MemoryInfo" -> [total |-> TInt, used |-> TInt]
      [] cls = "ExtendedMemoryInfo" ->
            [total |-> TInt, used |-> TInt, shared |-> TInt]
      [] cls = "SystemMemory" ->
            [mem |-> TUnion(MemUnion),
             swap |-> TUnion(<<TModel("MemoryInfo"), TNone>>),
             timestamp |-> TDatetime]
      [] cls = "BaseCpuSample" -> [cpu_load |-> TFloat, timestamp |-> TDatetime]
      [] cls = "CpuSampleProcessInfo" ->
            [pid |-> TInt, start_time |-> TStr,
             samples |-> TList(TModel("BaseCpuSample"))]
      [] cls = "LinuxBootTimeInfo" ->
            [total |-> TFloat, extra |-> TDict(TFloat), timestamp |-> TDatetime]

Fields(cls) == DOMAIN FieldTypes(cls)

\* issubclass: ExtendedMemoryInfo derives from MemoryInfo.
IsSubclass(c, d) == c = d \/ (c = "ExtendedMemoryInfo" /\ d = "MemoryInfo")

\* datetime.now() when a timestamp is made by the factory or from None.
Now == PyDatetime(9)

\* The default of a field: attr.field(factory=datetime.now), `= None`, or
\* NOTHING (PyError stands for it).
Default(cls, a) ==
    IF a = "timestamp" THEN Now
    ELSE IF cls = "SystemMemory" /\ a = "swap" THEN PyNone
    ELSE PyError

\* typeguard's check_type; of a list it looks at the first item.
RECURSIVE check_type(_, _)
check_type(v, ty) ==
    CASE ty.c = "any" -> TRUE
      [] ty.c = "int" -> v.t = "int"
      [] ty.c = "float" -> v.t \in {"int", "float"}
      [] ty.c = "str" -> v.t = "str"
      [] ty.c = "datetime" -> v.t = "datetime"
      [] ty.c = "none" -> v.t = "none"
      [] ty.c = "model" -> v.t = "model" /\ IsSubclass(v.cls, ty.cls)
      [] ty.c = "union" ->
            \E i \in 1..Len(ty.args) : check_type(v, ty.args[i])
      [] ty.c = "list" ->
            v.t = "list" /\ (v.e # <<>> => check_type(v.e[1], ty.of))
      [] ty.c = "dict" ->
            v.t = "map" /\ \A a \in DOMAIN v.f : check_type(v.f[a], ty.of)

\* attrs_init_replacement.init: `round(value, 3)` of a float.
Round3(n) == ((n + 5) \div 10) * 10

\* attrs_init_replacement.init: every field from the keyword arguments or
\* from its default; a field without either raises ValueError.
init(cls, kwargs) ==
    IF \E a \in Fields(cls) : a \notin DOMAIN kwargs /\ Default(cls, a) = PyError
    THEN PyError
    ELSE PyModel(cls,
            [a \in Fields(cls) |->
                LET value == IF a \in DOMAIN kwargs THEN kwargs[a]
                             ELSE Default(cls, a)
                IN  IF value.t = "float" THEN PyFloat(Round3(value.n))
                    ELSE value])

\* datetime.isoformat and datetime.fromisoformat: the fraction of a second
\* is written only when it is not zero.
isoformat(d) ==
    IF d.n % 2 = 0 THEN PyStr("iso_seconds", d.n \div 2)
    ELSE PyStr("iso_fraction", d.n)
fromisoformat(s) ==
    CASE s.k = "iso_seconds" -> PyDatetime(s.n * 2)
      [] s.k = "iso_fraction" -> PyDatetime(s.n)
      [] OTHER -> PyError

\* attrs_util.structure_datetime.
structure_datetimeBroken(value) ==
    IF value.t = "datetime" THEN value ELSE Now
structure_datetime(value) ==
    IF value.t = "str" THEN fromisoformat(value)
    ELSE IF value.t = "datetime" THEN value
    ELSE IF value.t = "none" THEN Now
    ELSE PyError

\* int(value), float(value), str(value) as cattrs calls them for the
\* fields of these types.
call_type(value, ty) ==
    CASE ty.c = "int" ->
            (CASE value.t = "int" -> value
               [] value.t = "float" -> PyInt(value.n \div 10000)
               [] value.t = "str" /\ value.k = "digits" -> PyInt(value.n)
               [] OTHER -> PyError)
      [] ty.c = "float" ->
            (CASE value.t = "int" -> PyFloat(value.n * 10000)
               [] value.t = "float" -> value
               [] value.t = "str" /\ value.k = "digits" -> PyFloat(value.n * 10000)
               [] value.t = "str" /\ value.k = "decimal" -> PyFloat(value.n)
               [] OTHER -> PyError)
      [] ty.c = "str" ->
            (CASE value.t = "str" -> value
               [] value.t = "int" -> PyStr("digits", value.n)
               [] value.t = "float" -> PyStr("decimal", value.n)
               [] value.t = "none" -> PyStr("word", 0)
               [] OTHER -> PyStr("repr", value.n))
      [] OTHER -> PyError

\* BaseRemoteperfModel.__new__ and the __init__ that follows it, and
\* converter.structure with the hooks of attrs_util: a keyword argument
\* that is not of the declared type sends all of them through the
\* converter, which structures every field by its type and calls the class
\* again; __init__ leaves an instance that already has its fields.
RECURSIVE New(_, _), structure(_, _), structure_union(_, _, _)
New(cls, kwargs) ==
    IF \E key \in DOMAIN kwargs :
          ~check_type(kwargs[key],
                      IF key \in Fields(cls) THEN FieldTypes(cls)[key] ELSE TAny)
    THEN structure(PyDict(kwargs), TModel(cls))
    ELSE init(cls, kwargs)

structure(value, ty) ==
    CASE ty.c = "datetime" -> structure_datetime(value)
      [] ty.c = "union" -> structure_union(value, ty.args, 1)
      [] ty.c = "model" ->
            IF value.t # "map" THEN PyError
            ELSE IF \E a \in Fields(ty.cls) :
                       a \notin DOMAIN value.f /\ Default(ty.cls, a) = PyError
            THEN PyError
            ELSE LET conv == [a \in Fields(ty.cls) \cap DOMAIN value.f |->
                                 structure(value.f[a], FieldTypes(ty.cls)[a])]
                 IN  IF \E a \in DOMAIN conv : conv[a] = PyError
                     THEN PyError
                     ELSE New(ty.cls, conv)
      [] ty.c = "list" ->
            IF value.t # "list" THEN PyError
            ELSE LET conv == [i \in 1..Len(value.e) |-> structure(value.e[i], ty.of)]
                 IN  IF \E i \in 1..Len(conv) : conv[i] = PyError
                     THEN PyError
                     ELSE PyList(conv)
      [] ty.c = "dict" ->
            IF value.t # "map" THEN PyError
            ELSE LET conv == [a \in DOMAIN value.f |-> structure(value.f[a], ty.of)]
                 IN  IF \E a \in DOMAIN conv : conv[a] = PyError
                     THEN PyError
                     ELSE PyDict(conv)
      [] ty.c = "any" -> value
      [] OTHER -> call_type(value, ty)

\* attrs_util.structure_union: the types of the union in turn, the first
\* that does not raise; ValueError when all of them raise.
structure_union(value, union_types, i) ==
    IF i > Len(union_types) THEN PyError
    ELSE LET union_type == union_types[i]
             attempt ==
                 IF value.t = "map"
                 THEN IF union_type.c = "model" THEN structure(value, union_type)
                      ELSE PyError
                 ELSE IF union_type.c = "datetime" THEN structure_datetime(value)
                 ELSE IF \/ union_type.c = value.t
                         \/ (/\ union_type.c = "model" /\ value.t = "model"
                             /\ value.cls = union_type.cls)
                 THEN value
                 ELSE call_type(value, union_type)
         IN  IF attempt # PyError THEN attempt
             ELSE structure_union(value, union_types, i + 1)

\* converter.unstructure with the hook for datetime, `d.isoformat()`.
RECURSIVE unstructure(_)
unstructure(v) ==
    CASE v.t = "model" -> PyDict([a \in DOMAIN v.f |-> unstructure(v.f[a])])
      [] v.t = "map" -> PyDict([a \in DOMAIN v.f |-> unstructure(v.f[a])])
      [] v.t = "list" -> PyList([i \in 1..Len(v.e) |-> unstructure(v.e[i])])
      [] v.t = "datetime" -> isoformat(v)
      [] OTHER -> v

\* BaseRemoteperfModel.model_dump without an exclude set.
model_dump(r) == unstructure(r)

\* A piece of YAML or JSON text: a scalar written plain or in quotes.
Text(style, v) == [t |-> "text", style |-> style, k |-> v.k, n |-> v.n]

\* What a plain scalar of YAML means to safe_load.
yaml_resolve(k) ==
    CASE k = "digits" -> "int"
      [] k = "decimal" -> "float"
      [] k \in {"iso_seconds", "iso_fraction", "iso"} -> "timestamp"
      [] k = "null" -> "null"
      [] OTHER -> "str"

\* yaml.dump: a str is written plain only when a plain scalar with its
\* text would be read as a str.
RECURSIVE yaml_dump(_)
yaml_dump(v) ==
    CASE v.t = "map" -> PyDict([a \in DOMAIN v.f |-> yaml_dump(v.f[a])])
      [] v.t = "list" -> PyList([i \in 1..Len(v.e) |-> yaml_dump(v.e[i])])
      [] v.t = "str" ->
            Text(IF yaml_resolve(v.k) = "str" THEN "plain" ELSE "quoted", v)
      [] v.t = "datetime" -> Text("plain", isoformat(v))
      [] OTHER -> Text("plain", v)

RECURSIVE yaml_safe_load(_)
yaml_safe_load(x) ==
    CASE x.t = "map" -> PyDict([a \in DOMAIN x.f |-> yaml_safe_load(x.f[a])])
      [] x.t = "list" -> PyList([i \in 1..Len(x.e) |-> yaml_safe_load(x.e[i])])
      [] x.t = "text" /\ x.style = "quoted" -> PyStr(x.k, x.n)
      [] x.t = "text" /\ x.style = "plain" ->
            (CASE yaml_resolve(x.k) = "int" -> PyInt(x.n)
               [] yaml_resolve(x.k) = "float" -> PyFloat(x.n)
               [] yaml_resolve(x.k) = "timestamp" -> fromisoformat(x)
               [] yaml_resolve(x.k) = "null" -> PyNone
               [] OTHER -> PyStr(x.k, x.n))
      [] OTHER -> PyError

\* json.dumps and json.loads: a str is always in quotes, a datetime is
\* not serializable.
RECURSIVE json_dumps(_)
json_dumps(v) ==
    CASE v.t = "map" -> PyDict([a \in DOMAIN v.f |-> json_dumps(v.f[a])])
      [] v.t = "list" -> PyList([i \in 1..Len(v.e) |-> json_dumps(v.e[i])])
      [] v.t = "str" -> Text("quoted", v)
      [] v.t \in {"int", "float", "none"} -> Text("plain", v)
      [] OTHER -> PyError

RECURSIVE json_loads(_)
json_loads(x) ==
    CASE x.t = "map" -> PyDict([a \in DOMAIN x.f |-> json_loads(x.f[a])])
      [] x.t = "list" -> PyList([i \in 1..Len(x.e) |-> json_loads(x.e[i])])
      [] x.t = "text" /\ x.style = "quoted" -> PyStr(x.k, x.n)
      [] x.t = "text" /\ x.k = "digits" -> PyInt(x.n)
      [] x.t = "text" /\ x.k = "decimal" -> PyFloat(x.n)
      [] x.t = "text" /\ x.k = "null" -> PyNone
      [] OTHER -> PyError

\* test_model_serialization: reserialize_yaml, reserialize_json, and the
\* dump handed on as it is.
Vias == {"mapping", "yaml", "json"}
reserialize(via, object) ==
    CASE via = "yaml" -> yaml_safe_load(yaml_dump(object))
      [] via = "json" -> json_loads(json_dumps(object))
      [] OTHER -> object

\* Python's ==: numbers by their value, instances of attrs classes by
\* class and fields, mappings and lists by their items.
RECURSIVE PyEq(_, _)
PyEq(a, b) ==
    IF a.t \in {"int", "float"} /\ b.t \in {"int", "float"}
    THEN (IF a.t = "int" THEN a.n * 10000 ELSE a.n)
           = (IF b.t = "int" THEN b.n * 10000 ELSE b.n)
    ELSE IF a.t # b.t \/ a.t = "error" THEN FALSE
    ELSE CASE a.t = "model" ->
                 /\ a.cls = b.cls
                 /\ DOMAIN a.f = DOMAIN b.f
                 /\ \A x \in DOMAIN a.f : PyEq(a.f[x], b.f[x])
           [] a.t = "map" ->
                 /\ DOMAIN a.f = DOMAIN b.f
                 /\ \A x \in DOMAIN a.f : PyEq(a.f[x], b.f[x])
           [] a.t = "list" ->
                 /\ Len(a.e) = Len(b.e)
                 /\ \A i \in 1..Len(a.e) : PyEq(a.e[i], b.e[i])
           [] OTHER -> a = b

\* The records of the runs followed, each made by its class from keyword
\* arguments of the declared types.
Stamps == {PyDatetime(2), PyDatetime(3)}
MemoryInfos ==
    {New("MemoryInfo", [total |-> PyInt(8), used |-> PyInt(u)]) : u \in {0, 3}}
ExtendedMemoryInfos ==
    {New("ExtendedMemoryInfo",
         [total |-> PyInt(8), used |-> PyInt(3), shared |-> PyInt(s)]) :
        s \in {0, 1}}
SystemMemories ==
    {New("SystemMemory", [mem |-> m, swap |-> s, timestamp |-> ts]) :
        m \in MemoryInfos \cup ExtendedMemoryInfos,
        s \in MemoryInfos \cup {PyNone}, ts \in Stamps}
    \cup {New("SystemMemory", [mem |-> m]) : m \in ExtendedMemoryInfos}
CpuSamples ==
    {New("BaseCpuSample", [cpu_load |-> l, timestamp |-> ts]) :
        l \in {PyInt(1), PyFloat(0), PyFloat(12342)}, ts \in Stamps}
SampleLists ==
    {<<>>} \cup {s \in UNION {[1..n -> CpuSamples] : n \in 1..MaxList} :
                    \A i \in 1..Len(s) : s[i].f.timestamp = PyDatetime(2 + i - 1)}
ProcessInfos ==
    {New("CpuSampleProcessInfo",
         [pid |-> PyInt(1005), start_time |-> st, samples |-> PyList(s)]) :
        st \in {PyStr("digits", 5762), PyStr("word", 1), PyStr("null", 0),
                PyStr("decimal", 15000)},
        s \in SampleLists}
BootTimes ==
    {New("LinuxBootTimeInfo",
         [total |-> PyInt(10), extra |-> PyDict(e), timestamp |-> ts]) :
        e \in {[kernel |-> PyFloat(114062)],
               [kernel |-> PyInt(11), userspace |-> PyFloat(117250)]},
        ts \in Stamps}
Records ==
    MemoryInfos \cup ExtendedMemoryInfos \cup SystemMemories \cup CpuSamples
        \cup ProcessInfos \cup BootTimes

\* A round trip of record r before its first step.
SerNew(r) ==
    [pc |-> "built", r |-> r, via |-> "none", dumped |-> PyNone,
     kwargs |-> PyNone, rebuilt |-> PyNone, redumped |-> PyNone]

InitSerial == ser \in {SerNew(r) : r \in Records}
SerialParked == ser = SerNew(PyNone)

\* r.model_dump()
SerDump ==
    /\ ser.pc = "built"
    /\ ser' = [ser EXCEPT !.pc = "dumped", !.dumped = model_dump(ser.r)]
    /\ UNCHANGED serialRest

\* reserialize_yaml(dump), reserialize_json(dump), or the dump itself.
SerReserialize(via) ==
    /\ ser.pc = "dumped"
    /\ ser' = [ser EXCEPT !.pc = "loaded", !.via = via,
                          !.kwargs = reserialize(via, ser.dumped)]
    /\ UNCHANGED serialRest

\* Cls(**kwargs); a mapping that is no dict of keyword arguments raises.
SerRebuild ==
    /\ ser.pc = "loaded"
    /\ ser' = [ser EXCEPT !.pc = "rebuilt",
                          !.rebuilt = IF ser.kwargs.t = "map"
                                      THEN New(ser.r.cls, ser.kwargs.f)
                                      ELSE PyError]
    /\ UNCHANGED serialRest

\* The dump of the rebuilt record.
SerRedump ==
    /\ ser.pc = "rebuilt"
    /\ ser' = [ser EXCEPT !.pc = "done",
                          !.redumped = IF ser.rebuilt.t = "model"
                                       THEN model_dump(ser.rebuilt)
                                       ELSE PyError]
    /\ UNCHANGED serialRest

NextSerial ==
    \/ SerDump
    \/ \E via \in Vias : SerReserialize(via)
    \/ SerRebuild
    \/ SerRedump

\* =====================================================================
\* __sample with the Linux per-process CPU fold
\* =====================================================================
\* The buffers of a worker of the per-process CPU kind as _thread_loop
\* makes them: empty.  taken is the history of the snapshots.
FoldNew ==
    [results |-> <<>>, processed |-> NoProcessed, taken |-> <<>>,
     exception |-> "None"]

InitFold == fb = FoldNew
FoldParked == fb = FoldNew

\* One call of __sample from _thread_loop (before, in or after the loop)
\* with _process_cpu_measurements as the processing function; an exception
\* ends the thread.
FoldSample(m) ==
    /\ fb.exception = "None"
    /\ Len(fb.taken) < MaxSnapshots
    /\ LET s == Sample(fb.results, fb.processed, m, "cpu")
       IN  fb' = IF s.exc # "None"
                 THEN [fb EXCEPT !.exception = s.exc]
                 ELSE [results |-> s.results, processed |-> s.processed,
                       taken |-> Append(fb.taken, [good |-> m.res = "data",
                                                   procs |-> m.procs]),
                       exception |-> "None"]
    /\ UNCHANGED foldRest

NextFold == \E m \in Measurements : FoldSample(m)

\* =====================================================================
\* QNXHandler: the per-process CPU sampler and its delegated readers
\* =====================================================================
\* A sample of this kind is a DelegatedExecutionThread, a reader: it is
\* started by its constructor, runs on its own and ends with an output or
\* with an exception.  The readers are numbered in the order they are
\* launched; the loop launches up to MaxReaders of them and the sample
\* after the loop may launch one more.
Readers == 1..(MaxReaders + 1)

\* more_itertools.partition(pred, results): the predicate is evaluated
\* once per item, when the first of the two iterables is consumed, and the
\* second iterable yields by the same evaluations.  given is the buffer,
\* checked the items that were alive when the predicate was evaluated,
\* state the state of the readers when the second iterable is consumed.
AliveThreadsBroken(given, checked, state) ==
    SelectSeq(given, LAMBDA t : state[t] = "running")
AliveThreads(given, checked, state) ==
    SelectSeq(given, LAMBDA t : t \in checked)

\* The sampler after start_cpu_measurement_proc_wise: no reader yet, the
\* worker before its first sample, nobody in stop.
QfNew ==
    [state |-> [r \in Readers |-> "none"],
     launched |-> 0,
     pc |-> "init",
     results |-> <<>>,
     checked |-> {},
     processed |-> [r \in Readers |-> 0],
     stop_flag |-> FALSE,
     stored |-> FALSE,
     stop |-> "none",
     output |-> [r \in Readers |-> 0],
     raced |-> FALSE]

InitQnxFold == qf = QfNew
QnxFoldParked == qf = QfNew

\* `not processed_results`: nothing has been folded.
QfNothingProcessed(q) == \A r \in Readers : q.processed[r] = 0

\* _process_cpu_measurements up to `dead_threads = list(dead_threads)` and
\* through the loop over them, on the buffer given: the predicate
\* is_alive() is evaluated, and the output of every reader that is not
\* alive is parsed into the processed results; the output of a reader that
\* ended with an exception raises it.
QfFoldDead(q, given) ==
    LET alive == {given[i] : i \in {j \in 1..Len(given) :
                                        q.state[given[j]] = "running"}}
        dead == {given[i] : i \in 1..Len(given)} \ alive
    IN  IF \E t \in dead : q.state[t] = "failed"
        THEN [q EXCEPT !.pc = "dead", !.results = given]
        ELSE [q EXCEPT !.results = given, !.checked = alive,
                       !.processed = [r \in Readers |->
                                         IF r \in dead THEN q.processed[r] + 1
                                         ELSE q.processed[r]]]

\* __sample: the measurement function launches a reader, which is appended
\* to the buffer, and the fold begins.
QfSample(q, then) ==
    LET n == q.launched + 1
        l == [q EXCEPT !.launched = n, !.state[n] = "running"]
        f == QfFoldDead(l, Append(q.results, n))
    IN  IF f.pc = "dead" THEN f ELSE [f EXCEPT !.pc = then]

\* _thread_loop: the sample before the loop, and a sample of a pass of the
\* loop in which the stop flag is not set.
QfLoopSample ==
    /\ \/ qf.pc = "init"
       \/ qf.pc = "loop" /\ ~qf.stop_flag /\ qf.launched < MaxReaders
    /\ qf' = QfSample(qf, "folding")
    /\ UNCHANGED qnxFoldRest

\* _process_cpu_measurements: `return list(alive_threads), ...`, and the
\* worker takes the new buffers.
QfFoldReturn ==
    /\ qf.pc \in {"folding", "last_folding"}
    /\ LET q == [qf EXCEPT !.results =
                               AliveThreads(qf.results, qf.checked, qf.state),
                           !.checked = {}]
       IN  qf' = IF qf.pc = "folding" THEN [q EXCEPT !.pc = "loop"]
                 ELSE [q EXCEPT !.pc = "stored", !.stored = TRUE]
    /\ UNCHANGED qnxFoldRest

\* _thread_loop after the loop: one more sample when nothing has been
\* folded, then the buffers are stored.
QfExit ==
    /\ qf.pc = "loop"
    /\ qf.stop_flag
    /\ qf' = IF QfNothingProcessed(qf) THEN QfSample(qf, "last_folding")
             ELSE [qf EXCEPT !.pc = "stored", !.stored = TRUE]
    /\ UNCHANGED qnxFoldRest

\* A reader ends: with its output, or with an exception.
QfReaderEnds(r, how) ==
    /\ qf.state[r] = "running"
    /\ qf' = [qf EXCEPT !.state[r] = how,
                        !.raced = qf.raced
                                  \/ (qf.pc \in {"folding", "last_folding"}
                                      /\ r \in qf.checked)]
    /\ UNCHANGED qnxFoldRest

\* stop_cpu_measurement_proc_wise up to thread.join() in _stop_measurement.
QfStop ==
    /\ qf.stop = "none"
    /\ qf' = [qf EXCEPT !.stop_flag = TRUE, !.stop = "joining"]
    /\ UNCHANGED qnxFoldRest

\* _stop_measurement after the join of the worker: it raises when the
\* worker stored nothing, else the buffers are taken and the readers in
\* the raw buffer are joined one after the other.
QfStopJoined ==
    /\ qf.stop = "joining"
    /\ qf.pc \in {"stored", "dead"}
    /\ qf' = IF ~qf.stored THEN [qf EXCEPT !.stop = "raised"]
             ELSE [qf EXCEPT !.stop = "joining_readers"]
    /\ UNCHANGED qnxFoldRest

\* stop_cpu_measurement_proc_wise after the joins: the final fold, and the
\* list it returns.
QfStopFold ==
    /\ qf.stop = "joining_readers"
    /\ \A i \in 1..Len(qf.results) : qf.state[qf.results[i]] # "running"
    /\ LET f == QfFoldDead(qf, qf.results)
       IN  qf' = IF f.pc = "dead" THEN [qf EXCEPT !.stop = "raised"]
                 ELSE [f EXCEPT !.stop = "returned", !.output = f.processed,
                                !.results =
                                    AliveThreads(f.results, f.checked, f.state)]
    /\ UNCHANGED qnxFoldRest

NextQnxFold ==
    \/ QfLoopSample
    \/ QfFoldReturn
    \/ QfExit
    \/ \E r \in Readers, how \in {"finished", "failed"} : QfReaderEnds(r, how)
    \/ QfStop
    \/ QfStopJoined
    \/ QfStopFold

\* =====================================================================
\* SSHClient with a jump client
\* =====================================================================
\* Two clients: J, made without jump_client, and D, made with
\* jump_client=J.  Thread "a" calls the public methods of J, thread "b"
\* those of D.  The session of D is a channel on the transport of J: it
\* dies with it.  D is made with retries=r, J with retries=0 (one attempt).
JumpNew(r) ==
    [J |-> [client |-> None, alive |-> FALSE],
     D |-> [client |-> None, alive |-> FALSE, retries |-> r],
     sessions |-> 0,
     jlock |-> "free", dlock |-> "free",
     a |-> [pc |-> "idle", op |-> "none", calls |-> 0, result |-> "none",
            on |-> None],
     b |-> [pc |-> "idle", op |-> "none", calls |-> 0, result |-> "none",
            attempt |-> 0, jump_reconnected |-> FALSE, failed |-> "none",
            msg |-> "none"]]

InitJump == jump \in {JumpNew(r) : r \in {0, 1}}
JumpParked == jump = JumpNew(0)

JumpOps == {"connect", "disconnect", "run_command"}

\* The end of a public method of J: the result, and the exit of
\* `with self._call_lock`.
AEnd(j, result) ==
    [j EXCEPT !.a.pc = "idle", !.a.calls = j.a.calls + 1, !.a.result = result,
              !.jlock = "free"]

\* The end of a public method of D.
BEnd(j, result, msg) ==
    [j EXCEPT !.b.pc = "idle", !.b.calls = j.b.calls + 1, !.b.result = result,
              !.b.msg = msg, !.dlock = "free"]

\* paramiko's connect, or client.close(), on J; D's channel goes with the
\* transport that is closed.
JConnected(j) ==
    [j EXCEPT !.J.client = j.sessions + 1, !.J.alive = TRUE,
              !.sessions = j.sessions + 1]
JClosed(j) ==
    [j EXCEPT !.J.client = None, !.J.alive = FALSE, !.D.alive = FALSE]
DConnected(j) ==
    [j EXCEPT !.D.client = j.sessions + 1, !.D.alive = TRUE,
              !.sessions = j.sessions + 1]
DClosed(j) == [j EXCEPT !.D.client = None, !.D.alive = FALSE]

\* LockClient.connect / disconnect / run_command of J up to the body:
\* `with self._call_lock`.
JCall(o) ==
    /\ jump.a.pc = "idle"
    /\ jump.a.calls < MaxCalls
    /\ jump.jlock = "free"
    /\ jump' = [jump EXCEPT !.jlock = "a", !.a.pc = "locked", !.a.op = o,
                            !.a.result = "none"]
    /\ UNCHANGED jumpRest

\* The body of the public method of J under its lock: _connect,
\* _disconnect, or _run_command up to exec_command on a session of the
\* client it finds.
JBody(ok) ==
    /\ jump.a.pc = "locked"
    /\ jump' =
         CASE jump.a.op = "connect" ->
                 IF jump.J.client # None THEN AEnd(jump, "returned")
                 ELSE IF ok THEN AEnd(JConnected(jump), "returned")
                 ELSE AEnd(jump, "SSHClientException")
           [] jump.a.op = "disconnect" ->
                 IF jump.J.client = None THEN AEnd(jump, "SSHClientException")
                 ELSE AEnd(JClosed(jump), "returned")
           [] OTHER ->
                 IF jump.J.client = None THEN AEnd(jump, "SSHClientException")
                 ELSE [jump EXCEPT !.a.pc = "exec", !.a.on = jump.J.client]
    /\ UNCHANGED jumpRest

\* _run_command of J from the read of the output on: the command ends well
\* only on the live session it was started on; otherwise
\* _recover_connection runs and, J having one attempt, the call raises.
JExecEnd(ok, reconnect_ok) ==
    /\ jump.a.pc = "exec"
    /\ jump' =
         IF ok /\ jump.J.alive /\ jump.J.client = jump.a.on
         THEN AEnd(jump, "output")
         ELSE IF jump.J.client = None \/ jump.J.alive
         THEN AEnd(jump, "SSHClientException")
         ELSE IF reconnect_ok
         THEN AEnd(JConnected(JClosed(jump)), "SSHClientException")
         ELSE AEnd(JClosed(jump), "SSHClientException")
    /\ UNCHANGED jumpRest

\* LockClient.connect / disconnect / run_command of D up to the body.
DCall(o) ==
    /\ jump.b.pc = "idle"
    /\ jump.b.calls < MaxCalls
    /\ jump.dlock = "free"
    /\ jump' = [jump EXCEPT !.dlock = "b", !.b.pc = "locked", !.b.op = o,
                            !.b.result = "none", !.b.msg = "none",
                            !.b.attempt = 0, !.b.failed = "none",
                            !.b.jump_reconnected = FALSE]
    /\ UNCHANGED jumpRest

\* The body of the public method of D under D's lock: _disconnect;
\* _connect up to `sock=self.socket`, which reads
\* self._jump_client._client (None has no get_transport) and starts
\* open_channel on its transport; _run_command up to the loop.
DBody ==
    /\ jump.b.pc = "locked"
    /\ jump' =
         CASE jump.b.op = "disconnect" ->
                 IF jump.D.client = None
                 THEN BEnd(jump, "SSHClientException", "no connection")
                 ELSE BEnd(DClosed(jump), "returned", "none")
           [] jump.b.op = "connect" ->
                 IF jump.D.client # None THEN BEnd(jump, "returned", "none")
                 ELSE IF jump.J.client = None
                 THEN BEnd(jump, "SSHClientException", "could not establish")
                 ELSE [jump EXCEPT !.b.pc = "channel"]
           [] OTHER ->
                 IF jump.D.client = None
                 THEN BEnd(jump, "SSHClientException", "Not Connected")
                 ELSE [jump EXCEPT !.b.pc = "attempt", !.b.attempt = 1]
    /\ UNCHANGED jumpRest

\* The end of one pass of D's loop: range(1, _retries + 2).
DLoopNext(j) ==
    IF j.b.attempt < j.D.retries + 1
    THEN [j EXCEPT !.b.pc = "attempt", !.b.attempt = j.b.attempt + 1]
    ELSE BEnd(j, "SSHClientException", "attempts exhausted")

\* The rest of D's _connect: open_channel on the transport of J and
\* paramiko's connect over it give a session, or raise.  In a recovery
\* (recovering) the loop goes on after it, or the exception leaves the call.
DChannel(ok) ==
    /\ jump.b.pc \in {"channel", "rechannel"}
    /\ LET good == ok /\ jump.J.client # None /\ jump.J.alive
           recovering == jump.b.pc = "rechannel"
       IN  jump' =
             IF good
             THEN IF recovering THEN DLoopNext(DConnected(jump))
                  ELSE BEnd(DConnected(jump), "returned", "none")
             ELSE BEnd([jump EXCEPT !.b.failed =
                                       IF recovering THEN "own" ELSE "none"],
                       "SSHClientException", "could not establish")
    /\ UNCHANGED jumpRest

\* One pass through the try block of D's _run_command.
DAttempt(ok) ==
    /\ jump.b.pc = "attempt"
    /\ jump' =
         IF ok /\ jump.D.alive /\ jump.J.alive
         THEN BEnd(jump, "output", "none")
         ELSE [jump EXCEPT !.b.pc = "recover"]
    /\ UNCHANGED jumpRest

\* D's _recover_connection up to the call of
\* self._jump_client._recover_connection(), which raises when J has no
\* client and else reads the state of J's transport.
DRecover ==
    /\ jump.b.pc = "recover"
    /\ jump' =
         IF jump.J.client = None
         THEN BEnd([jump EXCEPT !.b.failed = "jump_gone"], "SSHClientException",
                   "Cannot recover connection, not connected")
         ELSE [jump EXCEPT !.b.pc = "jump_probe"]
    /\ UNCHANGED jumpRest

\* J's _recover_connection, run by D's caller: _transport_alive and, for a
\* dead transport, _disconnect.
JumpProbe ==
    /\ jump.b.pc = "jump_probe"
    /\ jump' =
         IF jump.J.client = None
         THEN BEnd([jump EXCEPT !.b.failed = "jump_gone"], "SSHClientException",
                   "Cannot recover connection, not connected")
         ELSE IF ~jump.J.alive
         THEN [JClosed(jump) EXCEPT !.b.pc = "jump_connect"]
         ELSE [jump EXCEPT !.b.pc = "probe", !.b.jump_reconnected = FALSE]
    /\ UNCHANGED jumpRest

\* J's _recover_connection, run by D's caller: _connect.  Its exception
\* leaves D's _recover_connection before D's own _disconnect.
JumpConnect(ok) ==
    /\ jump.b.pc = "jump_connect"
    /\ jump' =
         IF jump.J.client # None
         THEN [jump EXCEPT !.b.pc = "probe", !.b.jump_reconnected = TRUE]
         ELSE IF ok
         THEN [JConnected(jump) EXCEPT !.b.pc = "probe",
                                       !.b.jump_reconnected = TRUE]
         ELSE BEnd([jump EXCEPT !.b.failed = "jump"], "SSHClientException",
                   "could not establish")
    /\ UNCHANGED jumpRest

\* D's _recover_connection after the jump client's: for a dead transport
\* or a new jump session, _disconnect and the start of _connect.
DProbe ==
    /\ jump.b.pc = "probe"
    /\ jump' =
         IF ~jump.D.alive \/ jump.b.jump_reconnected
         THEN IF jump.J.client = None
              THEN BEnd([DClosed(jump) EXCEPT !.b.failed = "own"],
                        "SSHClientException", "could not establish")
              ELSE [DClosed(jump) EXCEPT !.b.pc = "rechannel"]
         ELSE DLoopNext(jump)
    /\ UNCHANGED jumpRest

\* The transport of J, or the channel of D, dies.
JumpCrash(which) ==
    /\ IF which = "J" THEN jump.J.alive ELSE jump.D.alive
    /\ jump' = IF which = "J"
               THEN [jump EXCEPT !.J.alive = FALSE, !.D.alive = FALSE]
               ELSE [jump EXCEPT !.D.alive = FALSE]
    /\ UNCHANGED jumpRest

NextJump ==
    \/ \E o \in JumpOps : JCall(o)
    \/ \E ok \in BOOLEAN : JBody(ok)
    \/ \E ok \in BOOLEAN, reconnect_ok \in BOOLEAN : JExecEnd(ok, reconnect_ok)
    \/ \E o \in JumpOps : DCall(o)
    \/ DBody
    \/ \E ok \in BOOLEAN : DChannel(ok)
    \/ \E ok \in BOOLEAN : DAttempt(ok)
    \/ DRecover
    \/ JumpProbe
    \/ \E ok \in BOOLEAN : JumpConnect(ok)
    \/ DProbe
    \/ \E which \in {"J", "D"} : JumpCrash(which)

\* =====================================================================
\* The Linux CPU parsers under _handle_parsing_error
\* =====================================================================
\* Percentages are counted in thousandths (the models round every float
\* to three decimals), so 100 % is 100000.

\* fields(LinuxCpuModeUsageInfo), in /proc/stat order.
Labels ==
    <<"user", "nice", "system", "idle", "iowait", "irq", "softirq", "steal",
      "guest", "guest_nice">>
LabelSet == {Labels[i] : i \in 1..Len(Labels)}
LabelIndex(l) == CHOOSE i \in 1..Len(Labels) : Labels[i] = l

\* The counters of one line of /proc/stat: the user, system and idle
\* counters vary, the others stay at zero.
Counters ==
    {<<u, 0, sy, id, 0, 0, 0, 0, 0, 0>> : u \in 0..MaxJiffy, sy \in 0..MaxJiffy,
                                         id \in 0..MaxJiffy}

\* The lines of a snapshot that match the pattern, on a machine with one
\* core (its line carries the counters of the total): cpu_dict_1/2.
CpuLines == {"cpu", "cpu0"}
CpuDict(L, v) == [l \in L |-> v]

\* Vector.__sub__ and sum().
VSub(a, b) == [i \in 1..Len(a) |-> a[i] - b[i]]
RECURSIVE VSum(_)
VSum(v) == IF v = <<>> THEN 0 ELSE v[1] + VSum(Tail(v))

\* round(n / d, 0) for d > 0.
RoundDiv(n, d) == (2 * n + d) \div (2 * d)

\* parse_proc_stat: `diffs / sum(diffs) * 100 if sum(diffs) > 0 else diffs`,
\* each value rounded by LinuxCpuModeUsageInfo's __init__.
PercentagesBroken(diffs) == [i \in 1..Len(diffs) |-> 100000]
Percentages(diffs) ==
    IF VSum(diffs) > 0
    THEN [i \in 1..Len(diffs) |-> RoundDiv(diffs[i] * 100000, VSum(diffs))]
    ELSE [i \in 1..Len(diffs) |-> diffs[i] * 1000]

\* LinuxCpuModeUsageInfo(**dict(zip(labels, percentages))).
LinuxCpuModeUsageInfo(pct) == [l \in LabelSet |-> pct[LabelIndex(l)]]

\* parse_proc_stat: `100 - total.idle` and `100 - v.idle`.
LoadOfBroken(usage) == usage["idle"]
LoadOf(usage) == 100000 - usage["idle"]

\* parse_proc_stat(raw_cpu_usage_1, raw_cpu_usage_2) on the two dicts.
parse_proc_stat(d1, d2) ==
    IF DOMAIN d1 # DOMAIN d2 THEN [exc |-> "ParsingError"]
    ELSE LET mode_usages ==
                 [cpu \in DOMAIN d1 |->
                     LinuxCpuModeUsageInfo(Percentages(VSub(d2[cpu], d1[cpu])))]
         IN  IF "cpu" \notin DOMAIN mode_usages THEN [exc |-> "ParsingError"]
             ELSE [exc |-> "None",
                   load |-> LoadOf(mode_usages["cpu"]),
                   mode_usage |-> mode_usages["cpu"],
                   cores |-> [k \in DOMAIN mode_usages \ {"cpu"} |->
                                 LoadOf(mode_usages[k])]]

\* A snapshot of the per-process command: whether its header gives the
\* page size and the delimiter, whether anything follows a delimiter, the
\* processes whose stat text matches (each with the same CPU time), whether
\* the last part has the cpu line, and the sum of the counters of that line.
ProcSnapshots ==
    {[header |-> h, sections |-> FALSE, procs |-> {}, time |-> 0,
      cpu |-> FALSE, tick |-> 0] : h \in BOOLEAN}
    \cup {[header |-> h, sections |-> TRUE, procs |-> P, time |-> t,
           cpu |-> FALSE, tick |-> 0] :
             h \in BOOLEAN, P \in SUBSET Procs, t \in 0..MaxJiffy}
    \cup {[header |-> h, sections |-> TRUE, procs |-> P, time |-> t,
           cpu |-> TRUE, tick |-> k] :
             h \in BOOLEAN, P \in SUBSET Procs, t \in 0..MaxJiffy,
             k \in 0..MaxJiffy}

\* parse_cpu_usage_from_proc_files: `(cpu_load - proc_times_1[...]) /
\* tick_delta * 100`, rounded by LinuxResourceSample's __init__; Python
\* raises ZeroDivisionError for a divisor of zero.
CpuLoad(t1, t2, tick_delta) ==
    IF tick_delta = 0 THEN [exc |-> "ZeroDivisionError", value |-> 0]
    ELSE IF tick_delta > 0
    THEN [exc |-> "None", value |-> RoundDiv((t2 - t1) * 100000, tick_delta)]
    ELSE [exc |-> "None",
          value |-> RoundDiv((t1 - t2) * 100000, 0 - tick_delta)]

\* parse_cpu_usage_from_proc_files(raw_cpu_usage_1, raw_cpu_usage_2, ...).
parse_cpu_usage_from_proc_files(s1, s2) ==
    IF ~s1.header THEN [exc |-> "ParsingError"]
    ELSE IF ~s1.sections \/ ~s2.sections THEN [exc |-> "ParsingError"]
    ELSE IF ~s1.cpu \/ ~s2.cpu THEN [exc |-> "ParsingError"]
    ELSE LET tick_delta == s2.tick - s1.tick
             common == s2.procs \cap s1.procs
             sample == CpuLoad(s1.time, s2.time, tick_delta)
         IN  IF common # {} /\ sample.exc # "None" THEN [exc |-> sample.exc]
             ELSE [exc |-> "None", result |-> [q \in common |-> sample.value]]

\* _handle_parsing_error: `except ParsingError as e: raise
\* BaseLinuxHandlerException(...) from e`; anything else passes through.
HandleParsingError(r) ==
    IF r.exc = "ParsingError"
    THEN [exc |-> "BaseLinuxHandlerException", cause |-> "ParsingError"]
    ELSE r

\* The two snapshots a handler call has taken, before it parses them.
ParseNew(fn, a, b) ==
    [pc |-> "sampled", fn |-> fn, a |-> a, b |-> b, out |-> [exc |-> "None"]]

InitParse ==
    \/ \E L1 \in SUBSET CpuLines, L2 \in SUBSET CpuLines,
          v1 \in Counters, v2 \in Counters :
          prs = ParseNew("proc_stat", CpuDict(L1, v1), CpuDict(L2, v2))
    \/ \E s1 \in ProcSnapshots, s2 \in ProcSnapshots :
          prs = ParseNew("proc_files", s1, s2)
ParseParked == prs = ParseNew("proc_stat", CpuDict({}, <<>>), CpuDict({}, <<>>))

\* get_cpu_usage after its two measurements: parse_proc_stat under
\* _handle_parsing_error.
GetCpuUsage ==
    /\ prs.pc = "sampled"
    /\ prs.fn = "proc_stat"
    /\ prs' = [prs EXCEPT !.pc = "ended",
                          !.out = HandleParsingError(parse_proc_stat(prs.a, prs.b))]
    /\ UNCHANGED parseRest

\* get_cpu_usage_proc_wise after its two measurements:
\* parse_cpu_usage_from_proc_files under _handle_parsing_error.
GetCpuUsageProcWise ==
    /\ prs.pc = "sampled"
    /\ prs.fn = "proc_files"
    /\ prs' = [prs EXCEPT
                 !.pc = "ended",
                 !.out = HandleParsingError(
                             parse_cpu_usage_from_proc_files(prs.a, prs.b))]
    /\ UNCHANGED parseRest

NextParse == GetCpuUsage \/ GetCpuUsageProcWise

\* =====================================================================
\* Specifications
\* =====================================================================
\* The groups of the transport and sampler specifications at rest, and the
\* groups of the later specifications at rest.
CoreParked ==
    LockParked /\ SshParked /\ AdbParked /\ ScopeParked /\ SamplerParked
NewParked ==
    QnxParked /\ CadParked /\ ReaderParked /\ SerialParked
    /\ FoldParked /\ ParseParked /\ JumpParked /\ QnxFoldParked

InitSpecLock ==
    InitLock /\ SshParked /\ AdbParked /\ ScopeParked /\ SamplerParked
    /\ NewParked
SpecLock == InitSpecLock /\ [][NextLock]_vars

InitSpecSSH ==
    InitSSH /\ LockParked /\ AdbParked /\ ScopeParked /\ SamplerParked
    /\ NewParked
SpecSSH == InitSpecSSH /\ [][NextSSH]_vars

InitSpecADB ==
    InitADB /\ LockParked /\ SshParked /\ ScopeParked /\ SamplerParked
    /\ NewParked
SpecADB == InitSpecADB /\ [][NextADB]_vars

InitSpecScope ==
    InitScope /\ LockParked /\ SshParked /\ AdbParked /\ SamplerParked
    /\ NewParked
SpecScope == InitSpecScope /\ [][NextScope]_vars

InitSpecSampler ==
    InitSampler /\ LockParked /\ SshParked /\ AdbParked /\ ScopeParked
    /\ NewParked
SpecSampler == InitSpecSampler /\ [][NextSampler]_vars

\* The sampler with threads that keep running: a started worker thread
\* gets to take its first sample, a worker whose wait on the stop flag
\* ended gets to leave its loop (every command it sends terminates), and a
\* join on a thread that has ended returns.
SpecSamplerLive ==
    /\ SpecSampler
    /\ \A k \in Kinds : WF_vars(\E m \in Measurements : WorkerFirst(k, m))
    /\ \A k \in Kinds : WF_vars(\E m \in Measurements : WorkerExit(k, m))
    /\ WF_vars(StopJoined)

InitSpecQnx ==
    InitQnx /\ CoreParked /\ CadParked /\ ReaderParked
    /\ SerialParked /\ FoldParked /\ ParseParked /\ JumpParked
    /\ QnxFoldParked
SpecQnx == InitSpecQnx /\ [][NextQnx]_vars

InitSpecCadence ==
    InitCad /\ CoreParked /\ QnxParked /\ ReaderParked
    /\ SerialParked /\ FoldParked /\ ParseParked /\ JumpParked
    /\ QnxFoldParked
SpecCadence == InitSpecCadence /\ [][NextCad]_vars

InitSpecReader ==
    InitReader /\ CoreParked /\ QnxParked /\ CadParked
    /\ SerialParked /\ FoldParked /\ ParseParked /\ JumpParked
    /\ QnxFoldParked
SpecReader == InitSpecReader /\ [][NextReader]_vars

InitSpecSerial ==
    InitSerial /\ CoreParked /\ QnxParked /\ CadParked
    /\ ReaderParked /\ FoldParked /\ ParseParked /\ JumpParked
    /\ QnxFoldParked
SpecSerial == InitSpecSerial /\ [][NextSerial]_vars

InitSpecFold ==
    InitFold /\ CoreParked /\ QnxParked /\ CadParked
    /\ ReaderParked /\ SerialParked /\ ParseParked /\ JumpParked
    /\ QnxFoldParked
SpecFold == InitSpecFold /\ [][NextFold]_vars

InitSpecParse ==
    InitParse /\ CoreParked /\ QnxParked /\ CadParked
    /\ ReaderParked /\ SerialParked /\ FoldParked /\ JumpParked
    /\ QnxFoldParked
SpecParse == InitSpecParse /\ [][NextParse]_vars

InitSpecJump ==
    InitJump /\ CoreParked /\ QnxParked /\ CadParked
    /\ ReaderParked /\ SerialParked /\ FoldParked /\ ParseParked
    /\ QnxFoldParked
SpecJump == InitSpecJump /\ [][NextJump]_vars

InitSpecQnxFold ==
    InitQnxFold /\ CoreParked /\ QnxParked /\ CadParked
    /\ ReaderParked /\ SerialParked /\ FoldParked /\ ParseParked
    /\ JumpParked
SpecQnxFold == InitSpecQnxFold /\ [][NextQnxFold]_vars

\* ---------------------------------------------------------------------
\* Properties of SpecLock
\* ---------------------------------------------------------------------

InvalidTransfer(f) ==
    \/ f.src \in {"missing", "dir", "unreadable"}
    \/ f.dest = "absent_noparent"
    \/ f.dest = "file_ro"
    \/ (f.dest = "dir" /\ f.child = "file_ro")

\* C6: when the validation of pull_file / push_file fails, the byte
\* transfer is never invoked, the call ends with the transport's error,
\* and the caller does not hold the lock afterwards.
C6_ValidationBeforeTransfer ==
    \A t \in Threads :
        (op[t] \in {"pull_file", "push_file"} /\ InvalidTransfer(fs)) =>
            /\ ~transferred[t]
            /\ stage[t] # "transfer"
            /\ (stage[t] = "idle" =>
                    (outcome[t] = "exception" /\ call_lock # t /\ ~inside[t]))

\* C6 witness: a push_file whose destination passed every remote probe was
\* rejected because of its source, while no transfer was made.
C6_Witness ==
    \E t \in Threads :
        /\ op[t] = "push_file"
        /\ fs.dest = "dir" /\ fs.child = "file_w" /\ fs.src = "unreadable"
        /\ eff_dest[t] = "dest/name"
        /\ stage[t] = "idle"
        /\ outcome[t] = "exception"
        /\ ~transferred[t]

\* C7: a transfer goes to dest/basename(src) when dest is an existing
\* directory, and to dest itself when dest does not exist but its parent
\* does.
C7_EffectiveDestination ==
    \A t \in Threads :
        (op[t] \in {"pull_file", "push_file"} /\ transferred[t]) =>
            /\ (fs.dest = "dir" => eff_dest[t] = "dest/name")
            /\ (fs.dest = "absent" => eff_dest[t] = "dest")

\* C7 witness: a push_file into an existing directory has made its
\* transfer and returned.
C7_Witness ==
    \E t \in Threads :
        /\ op[t] = "push_file"
        /\ fs.dest = "dir"
        /\ transferred[t]
        /\ stage[t] = "idle"
        /\ outcome[t] = "returned"

\* The first validation probe pull_file / push_file send to the transport.
FirstProbe(o) ==
    IF o = "pull_file" THEN "is_file_src" ELSE "is_directory_dest"

\* Thread t is in a transfer: its first validation probe has started and
\* the transfer has not ended.
InTransfer(t) ==
    /\ op[t] \in {"pull_file", "push_file"}
    /\ stage[t] \in ProbeStages \cup {"local_src", "transfer"}
    /\ stage[t] = FirstProbe(op[t]) => inside[t]

\* C11: pull_file and push_file hold the lock for their whole duration:
\* between the first validation probe of a transfer and the end of that
\* transfer, no other caller executes a command on the same transport.
C11_TransferHoldsLock ==
    \A t, u \in Threads : (t # u /\ InTransfer(t)) => ~inside[u]

\* C12: a public method called by the thread that already holds the lock
\* is not blocked: at its `with self._call_lock` it can go on.
C12_NestedCallNotBlocked ==
    \A t \in Threads : nested[t] = "waiting" => LockFree

\* C13: add_cleanup never changes the registry while another thread is
\* executing a transport operation (the registry changes only under the
\* lock).
C13_RegistryChangeUnderLock ==
    [][cleanup' # cleanup => \A u \in Threads : ~inside[u]]_vars

\* ---------------------------------------------------------------------
\* Properties of SpecSSH
\* ---------------------------------------------------------------------

\* A call of the given kind has ended.
SshEnded(o) == ssh.op = o /\ ssh.pc = "idle" /\ ssh.result # "none"

\* C2: run_command called with retries = r against a command that times
\* out on every attempt (on a session that stays alive) makes exactly
\* max(r, 0) + 1 attempts and then raises SSHClientException; so a call
\* with retries = 0 makes one attempt whatever the client's default.
C2_AttemptsAreRetriesPlusOne ==
    (/\ SshEnded("run_command")
     /\ ssh.arg.given
     /\ ssh_obs.attempts > 0
     /\ ssh_obs.all_timeout
     /\ ssh_obs.reconnects = 0)
    => (/\ ssh_obs.attempts = Max(ssh.arg.val, 0) + 1
        /\ ssh.result = "SSHClientException")

\* C4: an attempt that follows a failed attempt whose probe found the
\* session dead runs on a newly established, live session; while attempts
\* remain and the client is connected no error reaches the caller, and an
\* attempt that succeeds returns the command's output.
C4_ReconnectBeforeRetry ==
    /\ (ssh.op = "run_command" /\ ssh.pc = "attempt" /\ ssh.attempt > 1
            /\ ssh_obs.dead_at_probe)
        => (/\ Connected
            /\ ssh.client # ssh_obs.failed_on
            /\ ssh.client = ssh.sessions
            /\ ssh_obs.reconnects > 0)
    /\ (SshEnded("run_command") /\ ssh.result = "SSHClientException"
            /\ Connected /\ ssh_obs.attempts > 0)
        => ssh_obs.attempts = ssh.n + 1
    /\ (SshEnded("run_command") /\ ssh_obs.last = "ok")
        => ssh.result = "output"

\* C4 witness: a run_command whose first attempt failed on a dead session
\* returned the output of a later attempt made on a new session.
C4_Witness ==
    /\ SshEnded("run_command")
    /\ ssh.result = "output"
    /\ ssh_obs.attempts > 1
    /\ ssh_obs.dead_at_probe
    /\ ssh_obs.reconnects > 0
    /\ ssh.client # ssh_obs.failed_on

\* C5: in pull_file and push_file an IOError of the file transfer ends the
\* call at once with SSHClientException: no probe, no reconnect and no
\* further attempt follow it, whatever the retry count.
C5_IoErrorIsFatal ==
    (ssh.op \in {"pull_file", "push_file"} /\ ssh_obs.last = "ioerror")
    => (/\ ssh.pc = "idle"
        /\ ssh.result = "SSHClientException"
        /\ ssh_obs.at_last = <<ssh_obs.attempts, ssh_obs.probes, ssh_obs.reconnects>>)

\* C5 witness: a transfer with attempts to spare ended on an IOError that
\* came after an earlier attempt had been retried.
C5_Witness ==
    /\ SshEnded("pull_file")
    /\ ssh_obs.last = "ioerror"
    /\ ssh.n > 1
    /\ ssh_obs.attempts = 2
    /\ ssh.result = "SSHClientException"

\* ---------------------------------------------------------------------
\* Properties of SpecADB
\* ---------------------------------------------------------------------

\* C3: ADB run_command with retries = r against a device that times out
\* on every attempt makes exactly max(r, 0) + 1 attempts before it raises
\* ADBClientException.
C3_AdbAttemptsAreRetriesPlusOne ==
    (/\ adb.op = "run_command" /\ adb.pc = "idle" /\ adb.result # "none"
     /\ adb.arg.given
     /\ adb_obs.attempts > 0
     /\ adb_obs.all_timeout)
    => (/\ adb_obs.attempts = Max(adb.arg.val, 0) + 1
        /\ adb.result = "ADBClientException")

\* ---------------------------------------------------------------------
\* Properties of SpecScope
\* ---------------------------------------------------------------------

\* The removal commands in the log, in the order they were issued.
Removals == SelectSeq(cmd_log, LAMBDA c : c.cmd = "rm")

\* One removal command per registered path, in registration order.
ExpectedRemovals == [i \in DOMAIN cleanup |-> RmCommand(cleanup[i])]

\* C8: when the scope exits because a transport exception was raised
\* inside it, no cleanup command is issued for the registered paths.
C8_NoCleanupOnTransportException ==
    scope.exc_type \in TransportExceptions => Removals = <<>>

\* C9: when the scope exits normally (with the client connected), exactly
\* one removal command is issued per registered path, in the order of
\* first registration, and all of them before the disconnect.
C9_OneRemovalPerPathInOrder ==
    (scope.pc = "exited" /\ scope.exc_type = "None" /\ scope.exit_connected)
    => (/\ Removals = ExpectedRemovals
        /\ \A i, j \in DOMAIN cmd_log :
              (cmd_log[i].cmd = "disconnect" /\ cmd_log[j].cmd = "rm") => j < i)

\* C10: every exit of the scope leaves the transport disconnected.
C10_ExitLeavesDisconnected ==
    scope.pc = "exited" => ~scope.connected

\* ---------------------------------------------------------------------
\* Properties of SpecSampler
\* ---------------------------------------------------------------------

\* C14: start of a kind that is already registered raises a handler error
\* and changes nothing: the registry keeps the original worker, which keeps
\* running, and no second worker is created.
C14_StartRejectedWhenRegistered ==
    [][(/\ caller' # caller
        /\ caller'.op = "start"
        /\ sm_threads[caller'.kind] # 0)
       => (/\ caller'.outcome = "raised"
           /\ caller'.msg = "already in progress"
           /\ sm_threads' = sm_threads
           /\ sm_results' = sm_results
           /\ worker' = worker)]_vars

C14_Witness ==
    /\ caller.op = "start"
    /\ caller.outcome = "raised"
    /\ sm_threads[caller.kind] = worker[caller.kind].id
    /\ worker[caller.kind].pc = "loop"
    /\ worker[caller.kind].taken # <<>>

\* C15: stop of a kind that is not registered raises a handler error and
\* leaves the registry, the workers and the stored results unchanged.
C15_StopRejectedWhenNotRegistered ==
    [][(/\ caller' # caller
        /\ caller.pc = "idle"
        /\ caller'.op = "stop"
        /\ sm_threads[caller'.kind] = 0)
       => (/\ caller'.pc = "idle"
           /\ caller'.outcome = "raised"
           /\ caller'.msg = "not in progress"
           /\ sm_threads' = sm_threads
           /\ sm_results' = sm_results
           /\ worker' = worker)]_vars

C15_Witness ==
    /\ caller.op = "stop"
    /\ caller.msg = "not in progress"
    /\ \E j \in Kinds : j # caller.kind /\ worker[j].pc = "loop"

\* C16: when stop(kind) ends after the join (it returns, or raises because
\* the worker died), kind is in neither the registry nor the stored
\* results, and a start(kind) that follows is accepted.
C16_StopUnregisters ==
    [][/\ (caller.pc = "joining" /\ caller'.pc = "idle")
          => (/\ sm_threads'[caller'.kind] = 0
              /\ ~sm_results'[caller'.kind].present)
       /\ (/\ caller.pc = "idle"
           /\ caller.op = "stop"
           /\ caller.msg # "not in progress"
           /\ caller' # caller
           /\ caller'.op = "start"
           /\ caller'.kind = caller.kind)
          => caller'.outcome = "returned"]_vars

C16_Witness ==
    /\ caller.op = "start"
    /\ caller.outcome = "returned"
    /\ worker[caller.kind].id > 1

\* C17: when a measurement or a fold raised inside a worker, the worker has
\* ended and the stop of its kind raises a handler error whose cause is the
\* exception that was raised; no buffers are returned.
C17_StopRaisesFromWorkerException ==
    [][(/\ caller.pc = "joining"
        /\ caller'.pc = "idle"
        /\ worker[caller.kind].raised # "None")
       => (/\ worker[caller.kind].pc = "dead"
           /\ caller'.outcome = "raised"
           /\ caller'.msg = "worker died"
           /\ caller'.cause = worker[caller.kind].raised
           /\ caller'.output = NoResult)]_vars

C17_Witness ==
    /\ caller.op = "stop"
    /\ caller.msg = "worker died"
    /\ caller.cause = "BaseLinuxHandlerException"

\* C18: a worker makes its first measurement before it looks at the stop
\* flag, so the stop of a sampler without fold, when it returns, returns a
\* raw buffer with at least one sample.
C18_FirstSampleBeforeStopCheck ==
    /\ \A k \in Kinds :
          worker[k].pc \in {"loop", "done"} => Len(worker[k].taken) >= 1
    /\ (/\ caller.op = "stop"
        /\ caller.outcome = "returned"
        /\ KindFold(caller.kind) = "none")
       => Len(caller.output.raw) >= 1

C18_Witness ==
    /\ caller.op = "stop"
    /\ caller.outcome = "returned"
    /\ caller.kind = "cpu"
    /\ Len(caller.output.raw) = 1

C20_NonPositiveIntervalRejected ==
    (caller.op = "start" /\ caller.interval <= 0) => caller.outcome = "raised"

\* C23: once stop(kind) has set the stop flag, the worker leaves its loop
\* and ends, and the stop call returns or raises: it never waits forever.
C23_StopTerminates ==
    /\ \A k \in Kinds :
          (worker[k].stop_flag /\ worker[k].pc \in {"init", "loop"})
          ~> (worker[k].pc \notin {"init", "loop"})
    /\ (caller.pc = "joining") ~> (caller.pc = "idle" /\ caller.op = "stop")

C23_Witness ==
    /\ caller.pc = "joining"
    /\ worker[caller.kind].stop_flag
    /\ worker[caller.kind].pc = "init"

\* C28: stop(kind) reads the buffers only once the worker thread has ended:
\* what it returns is the worker's final buffers, every sample and fold the
\* worker made included, and a worker takes samples only while it is still
\* registered, so never after the stop call for it has returned.
C28_StopReadsAfterWorkerEnded ==
    [][/\ (caller.pc = "joining" /\ caller'.pc = "idle")
          => (/\ worker[caller.kind].pc \in {"done", "dead"}
              /\ (caller'.outcome = "returned")
                    => (/\ worker[caller.kind].pc = "done"
                        /\ caller'.output.raw = worker[caller.kind].results
                        /\ caller'.output.processed = worker[caller.kind].processed))
       /\ \A k \in Kinds :
             (Len(worker'[k].taken) > Len(worker[k].taken))
             => (sm_threads[k] = worker[k].id /\ worker[k].id > 0)]_vars

C28_Witness ==
    /\ caller.pc = "idle"
    /\ caller.op = "stop"
    /\ caller.outcome = "returned"
    /\ Len(caller.output.raw) = MaxSamples

\* ---------------------------------------------------------------------
\* Properties of SpecQnx
\* ---------------------------------------------------------------------

\* C21: a QNX CPU start (system or proc-wise) with an interval below one
\* second is rejected by the start call unless the force flag is given (it
\* raises and registers no worker), and accepted with the flag.
C21_ShortIntervalNeedsForce ==
    (/\ qnx.last.op \in {"start_cpu", "start_cpu_proc"}
     /\ qnx.last.interval < 1
     /\ qnx.hogs
     /\ qnx.last.msg # "already in progress")
    => IF qnx.last.force
       THEN qnx.last.outcome = "returned" /\ qnx.threads[qnx.last.kind]
       ELSE qnx.last.outcome = "raised" /\ ~qnx.threads[qnx.last.kind]

\* C22: on a target without hogs, start_cpu_measurement_proc_wise raises
\* the missing-capability error and registers no worker, and a stop of the
\* kind reports that no measurement is in progress.
C22_MissingHogsRejectsStart ==
    ~qnx.hogs
    => (/\ ~qnx.threads["cpu_proc"]
        /\ qnx.worker["cpu_proc"].pc = "none"
        /\ qnx.last.op = "start_cpu_proc"
           => qnx.last.exc = "MissingQnxCapabilityException"
        /\ (qnx.last.op = "stop" /\ qnx.last.kind = "cpu_proc")
           => (/\ qnx.last.exc = "PosixHandlerException"
               /\ qnx.last.msg = "not in progress"))

C22_Witness ==
    /\ ~qnx.hogs
    /\ qnx.missing
    /\ qnx.last.op = "stop"
    /\ qnx.last.kind = "cpu_proc"
    /\ qnx.last.outcome = "raised"

\* ---------------------------------------------------------------------
\* Properties of SpecCadence
\* ---------------------------------------------------------------------
\* The time from the worker's start to the stop call, in whole intervals
\* rounded down and rounded up.
CadFloor == cad.stopped_at \div cad.interval
CadCeil == (cad.stopped_at + cad.interval - 1) \div cad.interval

\* C24: when stop returns after a run of duration T at interval D, the
\* number of samples the worker has taken is at least floor(T/D) - 1 and
\* at most ceil(T/D) + 2.
C24_SampleCountWithinBounds ==
    cad.returned
    => (cad.taken >= CadFloor - 1 /\ cad.taken <= CadCeil + 2)

C24_Witness ==
    /\ cad.returned
    /\ cad.stopped_at >= 3 * cad.interval
    /\ cad.taken = CadFloor
    /\ ~cad.fold

C30_LastRunAdvancesByInterval ==
    cad.pc \in {"top", "wait", "done"}
    => cad.last_run = cad.start_time + cad.in_loop * cad.interval

C30_Witness ==
    /\ cad.pc = "top"
    /\ cad.in_loop >= 2
    /\ cad.now > cad.last_run

\* ---------------------------------------------------------------------
\* Properties of SpecReader
\* ---------------------------------------------------------------------
\* The number of commands of one kind in a list of commands.
RdCount(log, c) == Cardinality({i \in 1..Len(log) : log[i] = c})

\* C25: the reader sends at most retries + 1 reads; every read but the
\* last one found no content; when retries re-reads have found none it
\* ends with ThreadException; and the exception a reader ended with is
\* raised to the one who reads its output.
C25_ReadsBoundedByRetries ==
    /\ RdCount(rd.log, "cat") <= rd.retries + 1
    /\ \A i \in 1..Len(rd.test) : NoContent(rd.test[i])
    /\ RdCount(rd.log, "cat") > 1 => Len(rd.test) >= RdCount(rd.log, "cat") - 1
    /\ (Len(rd.test) = rd.retries + 1)
         => (rd.pc = "dead" /\ rd.exception = "ThreadException")
    /\ (rd.exception = "ThreadException")
         => RdCount(rd.log, "cat") = rd.retries + 1
    /\ (rd.got.outcome # "none" /\ rd.exception # "None")
         => (rd.got.outcome = "raised" /\ rd.got.exc = rd.exception)

C25_Witness ==
    /\ rd.retries = MaxRetries
    /\ rd.exception = "ThreadException"
    /\ rd.got.outcome = "raised"

\* C26, as stated: a read with content is followed by exactly one removal
\* and the content is the reader's output, and a reader that fails has
\* sent no removal.
C26_FailureSendsNoRemoval ==
    /\ (rd.pc \in {"done", "dead"} /\ ~NoContent(rd.output))
         => (/\ RdCount(rd.log, "rm") = 1
             /\ rd.log[Len(rd.log)] = "rm"
             /\ rd.exception = "None"
             /\ rd.result = rd.output)
    /\ (rd.pc = "dead") => RdCount(rd.log, "rm") = 0

\* C26, amended: after a read with content the reader sends exactly one
\* removal and nothing after it, and when the removal returns the content
\* of that read is the reader's output; a reader that ends without having
\* read content has sent no removal.
C26_RemovalOnlyAfterContent ==
    /\ (rd.pc \in {"done", "dead"} /\ ~NoContent(rd.output))
         => (/\ RdCount(rd.log, "rm") = 1
             /\ rd.log[Len(rd.log)] = "rm"
             /\ rd.log[Len(rd.log) - 1] = "cat"
             /\ (rd.pc = "done")
                  => (rd.exception = "None" /\ rd.result = rd.output))
    /\ (rd.pc = "dead" /\ NoContent(rd.output)) => RdCount(rd.log, "rm") = 0
    /\ (rd.pc \notin {"done", "dead"}) => RdCount(rd.log, "rm") = 0
    /\ (rd.got.outcome = "returned")
         => (rd.got.text = rd.output /\ ~NoContent(rd.got.text))

C26_Witness ==
    /\ rd.got.outcome = "returned"
    /\ rd.got.text = <<"hello">>
    /\ RdCount(rd.log, "cat") = 3

\* ---------------------------------------------------------------------
\* Properties of SpecSerial
\* ---------------------------------------------------------------------
\* C27: the record rebuilt from the dump of a record r, handed on as a
\* mapping or through YAML or JSON text, is equal to r, and its dump is
\* equal to the dump of r.
C27_DumpRoundTrips ==
    /\ ser.pc \in {"rebuilt", "done"} => PyEq(ser.rebuilt, ser.r)
    /\ ser.pc = "done" => PyEq(ser.redumped, ser.dumped)

C27_Witness ==
    /\ ser.pc = "done"
    /\ ser.via = "yaml"
    /\ ser.r.cls = "SystemMemory"
    /\ ser.r.f.mem.cls = "ExtendedMemoryInfo"
    /\ ser.r.f.swap # PyNone

\* C38: a kind whose worker has died stays registered, with the same dead
\* worker (only its stop flag can be set), until a stop of that kind ends; a start of the kind that ends in
\* between is rejected as already in progress, and the stop that unregisters
\* it raises and hands out none of the samples the worker had collected.
C38_DeadWorkerStaysUntilStop ==
    [][\A k \in Kinds :
          worker[k].pc = "dead"
          => /\ sm_threads[k] = worker[k].id
             /\ sm_threads'[k] # sm_threads[k]
                => /\ sm_threads'[k] = 0
                   /\ caller.pc = "joining" /\ caller.kind = k
                   /\ caller'.pc = "idle" /\ caller'.op = "stop"
                   /\ caller'.outcome = "raised" /\ caller'.msg = "worker died"
                   /\ caller'.output = NoResult
                   /\ sm_results'[k] = NoResult
             /\ sm_threads'[k] = sm_threads[k]
                => [worker'[k] EXCEPT !.stop_flag = FALSE]
                   = [worker[k] EXCEPT !.stop_flag = FALSE]
             /\ (caller'.calls = caller.calls + 1 /\ caller'.op = "start"
                 /\ caller'.kind = k)
                => (caller'.outcome = "raised"
                    /\ caller'.msg = "already in progress")]_vars

\* A worker that died with a snapshot in its buffer was refused a restart,
\* or its stop has just ended.
C38_Witness ==
    \E k \in Kinds :
        /\ worker[k].pc = "dead" /\ worker[k].results # <<>>
        /\ caller.op = "start" /\ caller.kind = k /\ caller.pc = "idle"
        /\ caller.outcome = "raised" /\ caller.msg = "already in progress"

\* C32: a stop of the system CPU sampler that returns gives one record per
\* consecutive pair of the worker's n raw samples: for n >= 2 the i-th of
\* n - 1 records is computed from samples i and i + 1 and stamped with the
\* time of sample i + 1; for n = 1 one more sample is taken first and the
\* one record pairs the two; the list is never empty.
C32_OneRecordPerPair ==
    (cad.returned /\ ~cad.fold /\ cad.stop_exc = "None")
    => LET n == Len(cad.output)
       IN  /\ n >= 1
           /\ cad.records # <<>>
           /\ cad.extra <=> n = 1
           /\ n >= 2
              => /\ Len(cad.records) = n - 1
                 /\ \A i \in 1..(n - 1) :
                       cad.records[i] = [first |-> cad.output[i].n,
                                         second |-> cad.output[i + 1].n,
                                         timestamp |-> cad.output[i + 1].ts]
           /\ n = 1
              => cad.records = <<[first |-> cad.output[1].n,
                                  second |-> cad.taken + 1,
                                  timestamp |-> cad.now]>>
           /\ \A i \in 1..Len(cad.output) : cad.output[i].n = i

\* A stop that returned two records from three samples taken at three
\* different times.
C32_Witness ==
    /\ cad.returned /\ ~cad.fold /\ cad.stop_exc = "None"
    /\ Len(cad.output) = 3 /\ Len(cad.records) = 2
    /\ cad.output[1].ts < cad.output[2].ts
    /\ cad.output[2].ts < cad.output[3].ts

\* For a client without a jump host: when the reconnection of a recovery
\* fails the call ends at once with SSHClientException, whatever attempts
\* were left, and the client is left without a session; from then on every run_command is refused as
\* not connected without an attempt, and only connect gives the client a
\* session again.  (The call having ended, the `with self._call_lock` of
\* the public method has released the lock.)
DirectReconnectFailureEndsCall ==
    [][/\ (ssh.pc = "reconnect" /\ ssh'.client = None)
          => /\ ssh'.pc = "idle"
             /\ ssh'.result = "SSHClientException"
             /\ ssh'.attempt = ssh.attempt
             /\ ssh_obs'.attempts = ssh_obs.attempts
       /\ (ssh.pc = "idle" /\ ssh.client = None
           /\ ssh_obs'.calls = ssh_obs.calls + 1)
          => /\ ssh'.op = "run_command"
                => /\ ssh'.pc = "idle"
                   /\ ssh'.result = "SSHClientException"
                   /\ ssh'.attempt = 0
                   /\ ssh'.client = None
             /\ ssh'.client # None
                => ssh'.op = "connect" /\ ssh'.result = "returned"]_vars

\* C36 as stated: after a connect that raised, the ADB client is not
\* connected.
C36_FailedConnectLeavesDisconnected ==
    (adb.pc = "idle" /\ adb.op = "connect" /\ adb.result = "ADBClientException")
    => ~AdbConnected

\* ---------------------------------------------------------------------
\* Properties of SpecFold
\* ---------------------------------------------------------------------
\* The number of pairs of consecutive snapshots that both list process p.
PairsWith(taken, p) ==
    Cardinality({i \in 1..(Len(taken) - 1) :
                    p \in taken[i].procs \cap taken[i + 1].procs})

\* C31: in the per-process CPU fold the raw buffer of a running worker is
\* exactly its latest snapshot after every fold, so a fold never sees more
\* than two; every pair of consecutive snapshots is differenced once: a
\* process has one sample for every pair that lists it, k - 1 samples when
\* it is in all k snapshots.
C31_FoldKeepsLatestSnapshot ==
    (fb.exception = "None" /\ fb.taken # <<>>)
    => (/\ Len(fb.results) = 1
        /\ fb.results[1] = fb.taken[Len(fb.taken)]
        /\ \A p \in Procs : fb.processed[p] = PairsWith(fb.taken, p))

C31_Witness ==
    /\ fb.exception = "None"
    /\ Len(fb.taken) = MaxSnapshots
    /\ \A p \in Procs : fb.processed[p] = MaxSnapshots - 1

\* ---------------------------------------------------------------------
\* Properties of SpecParse
\* ---------------------------------------------------------------------
\* The sum of the mode usages of a record.
ModeSum(usage) == VSum([i \in 1..Len(Labels) |-> usage[Labels[i]]])

\* The deltas of the counters of line l between the two snapshots.
Deltas(l) == VSub(prs.b[l], prs.a[l])

StatParsed == prs.pc = "ended" /\ prs.fn = "proc_stat" /\ prs.out.exc = "None"

\* C33: when no counter of the cpu line has changed between the two
\* snapshots the parser returns (it does not divide by zero) and the record
\* has zero for every mode; a core line without change is reported with
\* an idle share of zero.
C33_UnchangedLineGivesZeros ==
    (prs.pc = "ended" /\ prs.fn = "proc_stat"
     /\ DOMAIN prs.a = DOMAIN prs.b /\ "cpu" \in DOMAIN prs.a
     /\ prs.a["cpu"] = prs.b["cpu"])
    => /\ prs.out.exc = "None"
       /\ \A l \in LabelSet : prs.out.mode_usage[l] = 0
       /\ \A k \in DOMAIN prs.out.cores : prs.out.cores[k] = 100000

C33_Witness ==
    /\ StatParsed
    /\ prs.a["cpu"] = prs.b["cpu"]
    /\ VSum(prs.a["cpu"]) > 0
    /\ DOMAIN prs.out.cores # {}

\* C34 as stated: the mode usages of every record the parser returns sum
\* to 100 within 0.5 and the load is 100 minus the idle share.
C34_ModesSumTo100 ==
    StatParsed
    => /\ ModeSum(prs.out.mode_usage) \in (100000 - 500)..(100000 + 500)
       /\ prs.out.load = 100000 - prs.out.mode_usage["idle"]

\* C34, amended: the mode usages sum to 100 within 0.5 when the counters
\* of the cpu line have grown in total; when their deltas sum to zero or
\* less the record carries the deltas themselves.  The load is 100 minus
\* the idle share in every case.
C34_ModesSumTo100WhenTicksGrew ==
    StatParsed
    => /\ VSum(Deltas("cpu")) > 0
          => ModeSum(prs.out.mode_usage) \in (100000 - 500)..(100000 + 500)
       /\ VSum(Deltas("cpu")) <= 0
          => \A l \in LabelSet :
                prs.out.mode_usage[l] = Deltas("cpu")[LabelIndex(l)] * 1000
       /\ prs.out.load = 100000 - prs.out.mode_usage["idle"]

\* Three counters that grew by one each: three thirds that do not add up
\* to 100 exactly.
C34_Witness ==
    /\ StatParsed
    /\ VSum(Deltas("cpu")) > 0
    /\ ModeSum(prs.out.mode_usage) # 100000
    /\ prs.out.load # 100000

\* C40 as stated: whatever the two snapshots, the per-process CPU
\* differencing under the handler's wrapper returns or raises the
\* handler's exception.
C40_OnlyHandlerErrors ==
    (prs.pc = "ended" /\ prs.fn = "proc_files")
    => prs.out.exc \in {"None", "BaseLinuxHandlerException"}

\* ---------------------------------------------------------------------
\* Properties of SpecJump
\* ---------------------------------------------------------------------
\* C35 as stated, for a client behind a jump host: a run_command that ended
\* because a reconnection of its recovery raised (the jump client's or its
\* own) leaves the client without a session.
C35_FailedReconnectLeavesDisconnected ==
    (jump.b.pc = "idle" /\ jump.b.op = "run_command"
     /\ jump.b.failed \in {"jump", "own"})
    => jump.D.client = None

\* C39 as stated: no caller of D opens a channel on the session of J,
\* probes it, closes it or re-establishes it while a caller of J is inside
\* a public method of J (holds J's lock).
C39_JumpSessionExclusive ==
    ~(/\ jump.a.pc \in {"locked", "exec"}
      /\ jump.b.pc \in {"channel", "rechannel", "jump_probe", "jump_connect"})

\* ---------------------------------------------------------------------
\* Properties of SpecQnxFold
\* ---------------------------------------------------------------------
\* C37: no reader is ever folded twice, and when
\* stop_cpu_measurement_proc_wise has returned the output of every reader
\* that was launched has been folded exactly once, also of a reader that
\* ended while a fold was between its liveness check and its return.
C37_EveryReaderFoldedOnce ==
    /\ \A r \in Readers : qf.processed[r] <= 1
    /\ qf.stop = "returned"
       => \A r \in Readers : qf.output[r] = (IF r <= qf.launched THEN 1 ELSE 0)

\* A stop that returned after a reader ended in the middle of a fold in
\* which it had been found alive.
C37_Witness ==
    /\ qf.stop = "returned"
    /\ qf.raced
    /\ qf.launched >= 2
====
